---- MODULE Spec2Model ----
(***************************************************************************)
(* A model of the MYGeranHub grant pipeline: candidate discovery and       *)
(* upsert (backend/agents/agent1.py), verification                         *)
(* (backend/agents/agent2.py), the grant_decider column written by the     *)
(* table store itself, knowledge sync                                      *)
(* (backend/server/services/grant_sync.py) and the orchestrator            *)
(* (backend/server/workers/grant_pipeline_worker.py).                      *)
(*                                                                         *)
(* Strings the code normalizes (grant names) are sequences of one-letter   *)
(* strings, so that strip() and lower() are computed.  Cell values the     *)
(* code only compares against fixed tokens are TLA+ strings.               *)
(***************************************************************************)
EXTENDS Integers, Sequences, FiniteSets, TLC

VARIABLES
    store,      \* scrap_result action table: the rows in listing order
    knowledge,  \* grants knowledge table: origin row id -> entries inserted
    nextId,     \* next row identifier the table store hands out
    pc,         \* stage of the pipeline run (_run_pipeline), "idle" between runs
    run,        \* data a pipeline run threads from one stage to the next
    res,        \* what the last operation returned, with what it was given
    gw,         \* one call of _make_ai_request_with_retry in progress
    env         \* the process: credentials configured, stop signal, --run-once

vars == <<store, knowledge, nextId, pc, run, res, gw, env>>

(***************************************************************************)
(* Bounds of the model.                                                    *)
(***************************************************************************)
\* rows the scrap_result table holds when the model starts
MaxInitRows == 2
\* rows the model lets add_table_rows create
MaxNewRows == 2
\* names the generator lists in one discovery
MaxListed == 2
\* row identifiers one call of run_grant_verifier is given
MaxBatch == 2
\* entries ever inserted into the knowledge table for one origin row
MaxInserts == 2
\* polling rounds of _wait_for_grant_decider before the deadline passes
MaxPollRounds == 2
\* the largest max_retries a gateway call is given
MaxRetries == 5
\* entries of WebScraperAgent.errors kept over successive gateway calls
MaxErrors == 2
\* places at which a parsed record differs from the required structure
MaxDefects == 1

(***************************************************************************)
(* Grant names: Python's str.strip() and str.lower().                      *)
(***************************************************************************)
RawNames == { <<"A">>, <<"a", " ">>, <<"b">> }

LowerChar(c) == CASE c = "A" -> "a" [] c = "B" -> "b" [] OTHER -> c

Lower(s) == [i \in 1..Len(s) |-> LowerChar(s[i])]

RECURSIVE LStrip(_)
LStrip(s) == IF s # <<>> /\ Head(s) = " " THEN LStrip(Tail(s)) ELSE s

RECURSIVE RStrip(_)
RStrip(s) ==
    IF s # <<>> /\ s[Len(s)] = " " THEN RStrip(SubSeq(s, 1, Len(s) - 1)) ELSE s

Strip(s) == RStrip(LStrip(s))

\* grant_name.strip().lower()
Normalize(name) == Lower(Strip(name))

(***************************************************************************)
(* Cell values.                                                            *)
(***************************************************************************)
NULL == "NULL"
\* the sentinel Verification stores when it cannot produce a payload
Sentinel == "failed to verify"
\* a grant_final cell holding a JSON object of the fixed schema
FinalJson == "json"
\* the value of grant_decider that approves a row for the knowledge table
Approved == "proceed to knowledge table sync"
Rejected == "reject"
Synced == "synced"
Skipped == "skipped: grant_final flagged as failed to verify"
Failed == "failed: insert"
\* a grant_scrap cell: the JSON object _create_grant_entries serialized, a
\* string that is not JSON, or JSON that is not an object
ScrapJson == "json object"
ScrapText == "not json"
ScrapArray == "json array"

\* A row as add_table_rows creates it from a GrantEntry: the other columns
\* are empty until Verification, the store's decider and Sync fill them.
NewRow(id, entry) ==
    [id |-> id, name |-> entry.name, scrap |-> ScrapJson, verified |-> FALSE,
     final |-> NULL, decider |-> NULL, status |-> NULL]

SeqToSet(s) == {s[i] : i \in 1..Len(s)}

RowIds(rows) == {rows[i].id : i \in 1..Len(rows)}

RECURSIVE SelectSeq2(_, _)
\* the rows of a listing whose identifier is in ids, in listing order
SelectSeq2(rows, ids) ==
    IF rows = <<>> THEN <<>>
    ELSE IF Head(rows).id \in ids
         THEN <<Head(rows)>> \o SelectSeq2(Tail(rows), ids)
         ELSE SelectSeq2(Tail(rows), ids)

(***************************************************************************)
(* JamAIBaseClient (agent1.py).                                            *)
(***************************************************************************)
\* get_grants_from_table: the listing, or [] when list_table_rows raises
get_grants_from_table(readOk) == IF readOk THEN store ELSE <<>>

\* get_existing_grant_names: the non-empty normalized names of the listing
get_existing_grant_names(readOk) ==
    LET grants == get_grants_from_table(readOk)
    IN {Normalize(grants[i].name) : i \in 1..Len(grants)} \ {<<>>}

\* existing_grant_map of add_or_update_grant_entries: stripped, lower-cased
\* name -> row; a later row of the listing overwrites an earlier one
existing_grant_map(grants) ==
    LET names == {Normalize(grants[i].name) : i \in 1..Len(grants)} \ {<<>>}
        last(n) == CHOOSE i \in 1..Len(grants) :
                      /\ Normalize(grants[i].name) = n
                      /\ \A j \in (i + 1)..Len(grants) : Normalize(grants[j].name) # n
    IN [n \in names |-> grants[last(n)]]

RECURSIVE classify_entries(_, _, _)
\* Step 2 of add_or_update_grant_entries: the loop over the batch
classify_entries(entries, map, acc) ==
    IF entries = <<>> THEN acc
    ELSE LET entry == Head(entries)
             grant_name == Strip(entry.name)
         IN IF grant_name = <<>>
            THEN classify_entries(Tail(entries), map, acc)
            ELSE IF Lower(grant_name) \in DOMAIN map
            THEN classify_entries(Tail(entries), map,
                     [grants_to_delete |->
                          Append(acc.grants_to_delete, map[Lower(grant_name)].id),
                      grants_to_add |-> Append(acc.grants_to_add, entry),
                      updated_count |-> acc.updated_count + 1])
            ELSE classify_entries(Tail(entries), map,
                     [acc EXCEPT !.grants_to_add = Append(acc.grants_to_add, entry)])

\* a faulty deletion: the whole table is cleared before the batch is added
delete_all_rows(rows, grant_ids) == <<>>

\* _delete_specific_grants: the table after delete_table_rows succeeded
delete_rows(rows, grant_ids) ==
    SelectSeq2(rows, RowIds(rows) \ SeqToSet(grant_ids))

\* _add_new_grants: the rows add_table_rows appends, with fresh identifiers
added_rows(entries, firstId) ==
    [i \in 1..Len(entries) |-> NewRow(firstId + i - 1, entries[i])]

\* _add_new_grants and _extract_row_ids_from_completion: count and row_ids.
\* addOut: "ok", "noids" (the completion carries no row ids), "fail" (raises)
add_new_grants(entries, firstId, addOut) ==
    LET row_ids == IF addOut = "ok"
                   THEN [i \in 1..Len(entries) |-> firstId + i - 1]
                   ELSE <<>>
    IN IF addOut = "fail"
       THEN [count |-> 0, row_ids |-> <<>>]
       ELSE [count |-> IF Len(row_ids) # 0 THEN Len(row_ids) ELSE Len(entries),
             row_ids |-> row_ids]

\* a faulty Step 3: Step 4 is reached whatever the deletion returned
insertion_always_reached(grants_to_delete, delete_success) == TRUE

\* Step 3: the insertion of Step 4 is reached only when there was nothing
\* to delete or _delete_specific_grants returned True
insertion_reached(grants_to_delete, delete_success) ==
    grants_to_delete = <<>> \/ delete_success

\* a faulty Step 1: the rows whose names Discovery read are used again
discovery_snapshot(readOk) ==
    SelectSeq2(store, {store[i].id : i \in {j \in 1..Len(store) :
                                               Normalize(store[j].name) \in run.existing}})

\* Step 1 of add_or_update_grant_entries, line 521: the table is read again
upsert_snapshot(readOk) == get_grants_from_table(readOk)

\* add_or_update_grant_entries: the table, the next identifier, the result
\* and the calls made on the table store, in the order they were made
add_or_update_grant_entries(grant_entries, readOk, delOk, addOut) ==
    LET existing_grants == upsert_snapshot(readOk)
        plan == classify_entries(grant_entries, existing_grant_map(existing_grants),
                    [grants_to_delete |-> <<>>, grants_to_add |-> <<>>,
                     updated_count |-> 0])
        deletes == plan.grants_to_delete # <<>>
        after_delete == IF deletes /\ delOk
                        THEN delete_rows(store, plan.grants_to_delete)
                        ELSE store
        list_calls == <<[call |-> "list", ok |-> readOk]>>
        delete_calls == IF deletes
                        THEN <<[call |-> "delete", ok |-> delOk]>> ELSE <<>>
        adds == plan.grants_to_add # <<>>
        add_result == add_new_grants(plan.grants_to_add, nextId, addOut)
        add_calls == IF adds
                     THEN <<[call |-> "add", ok |-> addOut # "fail"]>> ELSE <<>>
    IN IF ~insertion_reached(plan.grants_to_delete, delOk)
       THEN [store |-> after_delete, nextId |-> nextId,
             result |-> [success |-> FALSE, added |-> 0, updated |-> 0,
                         has_processed_ids |-> FALSE, processed_ids |-> <<>>],
             calls |-> list_calls \o delete_calls]
       ELSE [store |-> IF adds /\ addOut # "fail"
                       THEN after_delete \o added_rows(plan.grants_to_add, nextId)
                       ELSE after_delete,
             nextId |-> IF adds /\ addOut # "fail"
                        THEN nextId + Len(plan.grants_to_add) ELSE nextId,
             result |-> [success |-> TRUE,
                         added |-> IF adds THEN add_result.count ELSE 0,
                         updated |-> plan.updated_count,
                         has_processed_ids |-> TRUE,
                         processed_ids |-> IF adds THEN add_result.row_ids ELSE <<>>],
             calls |-> list_calls \o delete_calls \o add_calls]

(***************************************************************************)
(* WebScraperAgent._validate_exact_structure (agent1.py).                  *)
(*                                                                         *)
(* A parsed JSON record is kept place by place: what it holds at the top,  *)
(* under grantName, period, grantDescription, applicationProcess, under    *)
(* steps and requiredDocuments of applicationProcess, under files of       *)
(* requiredDocuments, and as the item of files ("file").  What a place     *)
(* holds is a node: a JSON object ("dict") with its keys, a string ("str") *)
(* with the key names that occur in it, an array ("list") with the key     *)
(* names that are elements of it, or a number, boolean or null ("other").  *)
(* The item of files can also be absent: the array is empty.               *)
(***************************************************************************)
\* lines 419-428, and the keys lines 462-463 require of an item of files
required_structure ==
    [top |-> {"grantName", "period", "grantDescription", "applicationProcess"},
     grantName |-> {"value", "sourceUrl"},
     period |-> {"range", "sourceUrl"},
     grantDescription |-> {"text", "sourceUrl"},
     applicationProcess |-> {"steps", "requiredDocuments"},
     steps |-> {"description", "sourceUrl"},
     requiredDocuments |-> {"sourceUrl", "files"},
     files |-> {},
     file |-> {"name", "downloadUrl", "sourceUrl"}]

Places == DOMAIN required_structure

\* all(key in node for key in keys): `in` tests the keys of an object, the
\* substrings of a string and the elements of an array, and raises TypeError
\* on anything else, which line 467 turns into False
has_keys(node, keys) ==
    /\ node.kind \in {"dict", "str", "list"}
    /\ keys \subseteq node.keys

\* node[key] with a string key: only an object can be indexed that way; a
\* string or an array raises TypeError, which line 467 turns into False
subscriptable(node) == node.kind = "dict"

\* lines 460-464: the items of files are checked when files is an array
files_checked(grant) ==
    \/ grant.files.kind # "list"
    \/ grant.file.kind = "absent"
    \/ has_keys(grant.file, required_structure.file)

\* _validate_exact_structure, lines 416-468
validate_exact_structure(grant) ==
    /\ has_keys(grant.top, required_structure.top)
    /\ has_keys(grant.grantName, required_structure.grantName)
    /\ has_keys(grant.period, required_structure.period)
    /\ has_keys(grant.grantDescription, required_structure.grantDescription)
    /\ has_keys(grant.applicationProcess, required_structure.applicationProcess)
    /\ subscriptable(grant.applicationProcess)
    /\ has_keys(grant.steps, required_structure.steps)
    /\ has_keys(grant.requiredDocuments, required_structure.requiredDocuments)
    /\ subscriptable(grant.requiredDocuments)
    /\ files_checked(grant)

\* the record the detail prompt asks for: every place an object with the
\* required keys, files an array with one complete item
FullGrant ==
    [p \in Places |->
        IF p = "files" THEN [kind |-> "list", keys |-> {}]
        ELSE [kind |-> "dict", keys |-> required_structure[p]]]

\* What json.loads can put at a place instead: a node of another kind, or
\* one that lacks one of the required keys.  The top of a record is always
\* an object (line 397 extracts the text between braces).
NodesAt(p) ==
    LET keysets == {required_structure[p]}
                       \cup {required_structure[p] \ {k} : k \in required_structure[p]}
    IN IF p = "top" THEN {[kind |-> "dict", keys |-> ks] : ks \in keysets}
       ELSE IF p = "files"
            THEN {[kind |-> k, keys |-> {}] : k \in {"list", "dict", "str", "other"}}
            ELSE {[kind |-> k, keys |-> ks] :
                     k \in {"dict", "str", "list"}, ks \in keysets}
                 \cup {[kind |-> "other", keys |-> {}]}
                 \cup (IF p = "file" THEN {[kind |-> "absent", keys |-> {}]} ELSE {})

RECURSIVE RecordsNear(_, _)
\* the records that differ from `grant` at no more than n places
RecordsNear(grant, n) ==
    IF n = 0 THEN {grant}
    ELSE LET near == RecordsNear(grant, n - 1)
         IN near \cup UNION {{[g EXCEPT ![p] = node] : node \in NodesAt(p)} :
                                g \in near, p \in Places}

\* the records the generator's answers parse to
ParsedRecords == RecordsNear(FullGrant, MaxDefects)

(***************************************************************************)
(* WebScraperAgent.scrape_all_grants (agent1.py).                          *)
(***************************************************************************)
\* a record with no sourceUrl under grantName, and one whose grantName is a
\* string that mentions "value" and "sourceUrl"
NoSourceGrant == [FullGrant EXCEPT !["grantName"].keys = {"value"}]
StringNameGrant == [FullGrant EXCEPT !["grantName"].kind = "str"]

\* What the generator answers to one detail request: nothing that parses
\* ("none": the request failed or the text is not JSON), or a JSON record,
\* of which the model keeps the places and, for the complete record, the
\* string under grantName.value
DetailOutcomes ==
    {[kind |-> "none", grant |-> FullGrant, name |-> <<>>]}
        \cup {[kind |-> "parsed", grant |-> FullGrant, name |-> n] : n \in RawNames}
        \cup {[kind |-> "parsed", grant |-> g, name |-> <<>>] :
                  g \in {NoSourceGrant, StringNameGrant}}

\* _parse_single_grant_response, lines 393-414, as _search_single_grant_ai
\* returns it: the parsed record when the validator accepts it, else None
parse_single_grant_response(detail) ==
    IF detail.kind = "parsed" /\ validate_exact_structure(detail.grant)
    THEN detail
    ELSE [detail EXCEPT !.kind = "none"]

\* limit = max(1, min(max_candidates or 10, 25)); 0 stands for None
candidate_limit(max_candidates) ==
    LET wanted == IF max_candidates = 0 THEN 10 ELSE max_candidates
        capped == IF wanted < 25 THEN wanted ELSE 25
    IN IF capped > 1 THEN capped ELSE 1

\* grant_names[:limit]
Truncate(s, limit) == SubSeq(s, 1, IF Len(s) < limit THEN Len(s) ELSE limit)

\* the test of lines 161-162: the name is already in the table
is_existing(grant_name, existing_grant_names) ==
    Normalize(grant_name) \in existing_grant_names

RECURSIVE filter_existing(_, _, _)
\* lines 158-166: split the listed names into skipped_existing and the rest
filter_existing(grant_names, existing_grant_names, acc) ==
    IF grant_names = <<>> THEN acc
    ELSE IF is_existing(Head(grant_names), existing_grant_names)
         THEN filter_existing(Tail(grant_names), existing_grant_names,
                  [acc EXCEPT !.skipped_existing = Append(@, Head(grant_names))])
         ELSE filter_existing(Tail(grant_names), existing_grant_names,
                  [acc EXCEPT !.filtered_names = Append(@, Head(grant_names))])

RECURSIVE scraping_without_validation(_, _, _)
\* a faulty _sequential_scraping: every answer that parses is kept
scraping_without_validation(grant_names, details, acc) ==
    IF grant_names = <<>> THEN acc
    ELSE LET grant_name == Head(grant_names)
             grant_data == Head(details)
             requested == [acc EXCEPT !.detail_requests = Append(@, grant_name)]
         IN IF grant_data.kind = "parsed"
            THEN scraping_without_validation(Tail(grant_names), Tail(details),
                     [requested EXCEPT
                         !.scraped_grants = Append(@, grant_data),
                         !.processed_grant_names = Append(@, grant_name)])
            ELSE scraping_without_validation(Tail(grant_names), Tail(details),
                     [requested EXCEPT !.failed_grants = Append(@, grant_name)])

RECURSIVE sequential_scraping(_, _, _)
\* _sequential_scraping: one detail request per name, in order
sequential_scraping(grant_names, details, acc) ==
    IF grant_names = <<>> THEN acc
    ELSE LET grant_name == Head(grant_names)
             grant_data == parse_single_grant_response(Head(details))
             requested == [acc EXCEPT !.detail_requests = Append(@, grant_name)]
         IN IF grant_data.kind = "parsed" /\ validate_exact_structure(grant_data.grant)
            THEN sequential_scraping(Tail(grant_names), Tail(details),
                     [requested EXCEPT
                         !.scraped_grants = Append(@, grant_data),
                         !.processed_grant_names = Append(@, grant_name)])
            ELSE sequential_scraping(Tail(grant_names), Tail(details),
                     [requested EXCEPT !.failed_grants = Append(@, grant_name)])

\* _create_grant_entries: one entry per scraped record; line 488 reads
\* grant_data['grantName']['value'], which raises TypeError when grantName
\* is not an object, and scrape_all_grants (lines 183-186) then returns []
create_grant_entries(scraped_grants) ==
    IF \E i \in 1..Len(scraped_grants) : ~subscriptable(scraped_grants[i].grant.grantName)
    THEN <<>>
    ELSE [i \in 1..Len(scraped_grants) |-> [name |-> scraped_grants[i].name]]

\* scrape_all_grants: the run statistics of the agent and the grant entries
scrape_all_grants(existing_grant_names, listed, max_candidates, details) ==
    LET grant_names == Truncate(listed, candidate_limit(max_candidates))
        split == IF existing_grant_names # {}
                 THEN filter_existing(grant_names, existing_grant_names,
                          [skipped_existing |-> <<>>, filtered_names |-> <<>>])
                 ELSE [skipped_existing |-> <<>>, filtered_names |-> grant_names]
        scraped == sequential_scraping(split.filtered_names, details,
                       [detail_requests |-> <<>>, scraped_grants |-> <<>>,
                        processed_grant_names |-> <<>>, failed_grants |-> <<>>])
    IN [requested_grant_count |-> Len(grant_names),
        grant_names |-> grant_names,
        skipped_existing |-> split.skipped_existing,
        detail_requests |-> scraped.detail_requests,
        processed_grant_names |-> scraped.processed_grant_names,
        failed_grants |-> scraped.failed_grants,
        answers |-> details,
        grant_entries |-> create_grant_entries(scraped.scraped_grants)]

(***************************************************************************)
(* GrantVerificationAgent (agent2.py).                                     *)
(***************************************************************************)
\* What happens to one row that is not skipped (lines 151-166). A record
\* that passed the validator has grantName, period, grantDescription and
\* applicationProcess.steps, each with a text and a source URL, so
\* _process_input issues four claim requests (the model's records list no
\* required document); _produce_final_payload issues one more.
\*   "claim_fail"          the claim request raises
\*   "verified_write_fail" the update of grant_verified raises
\*   "final_request_fail"  the final-payload request raises, or the
\*                         parsing of its answer does
\*   "final_write_fail"    the update of grant_final raises
\*   "final_json"          a schema-valid JSON object is stored
\*   "final_sentinel"      the sentinel is stored
VerifyOutcomes ==
    {"claim_fail", "verified_write_fail", "final_request_fail",
     "final_write_fail", "final_json", "final_sentinel"}

\* gateway requests issued for a row with the given outcome; the claim
\* request that raises is the first one
gateway_calls(outcome) ==
    IF outcome = "claim_fail" THEN 1
    ELSE IF outcome = "verified_write_fail" THEN 4
    ELSE 5

\* the columns _update_columns is called for, in order (lines 153 and 159);
\* an exception anywhere in the try block of lines 150-166 ends the row
update_attempts(outcome) ==
    IF outcome = "claim_fail" THEN <<>>
    ELSE IF outcome \in {"verified_write_fail", "final_request_fail"}
         THEN <<"grant_verified">>
         ELSE <<"grant_verified", "grant_final">>

\* a faulty line 140: only a JSON payload counts, the sentinel does not
has_json_payload(grant_final) == grant_final = FinalJson

\* line 140: isinstance(grant_final, str) and grant_final.strip()
has_final_payload(grant_final) == grant_final # NULL

\* _produce_final_payload: the normalized JSON or the sentinel
produce_final_payload(outcome) ==
    IF outcome = "final_json" THEN FinalJson ELSE Sentinel

\* _is_valid_final_payload, lines 483-519: the keys of applicationProcess
\* are not tested with `in`; reading app_process["steps"] and
\* app_process["requiredDocuments"] raises when one is missing or when
\* applicationProcess is not an object, and line 518 returns False
is_valid_final_payload(grant) ==
    /\ \A key \in required_structure.top :
          /\ has_keys(grant.top, {key})
          /\ key # "applicationProcess"
                => has_keys(grant[key], required_structure[key])
    /\ subscriptable(grant.applicationProcess)
    /\ required_structure.applicationProcess \subseteq grant.applicationProcess.keys
    /\ has_keys(grant.steps, required_structure.steps)
    /\ has_keys(grant.requiredDocuments, required_structure.requiredDocuments)
    /\ subscriptable(grant.requiredDocuments)
    /\ files_checked(grant)

\* What json.loads returns for a text that is JSON: an object (kept place by
\* place), the string "failed to verify" in some letter case, or another
\* string, number, array, boolean or null.
JsonValues ==
    {[type |-> "object", grant |-> g] : g \in ParsedRecords}
        \cup {[type |-> t, grant |-> FullGrant] : t \in {"sentinel", "other"}}

\* The texts the chat completion can return (lines 450-451 turn a missing
\* content into ""): the words failed to verify in some letter case, with
\* white space around them ("sentinel"); a text that is JSON as a whole
\* ("json"); prose around a JSON object ("embedded"), possibly with curly
\* quotes or trailing commas in the object ("repairable"); a text with no
\* JSON in it, the empty text included ("prose").
ModelTexts ==
    {[form |-> f, json |-> [type |-> "other", grant |-> FullGrant]] :
        f \in {"sentinel", "prose"}}
        \cup {[form |-> "json", json |-> v] : v \in JsonValues}
        \cup {[form |-> f, json |-> [type |-> "object", grant |-> g]] :
                  f \in {"embedded", "repairable"},
                  g \in {FullGrant, NoSourceGrant}}

\* _parse_model_output, lines 453-481.  A text that is not the sentinel and
\* that json.loads rejects reaches re.search with a pattern that holds the
\* group recursion (?1); the re module of the standard library rejects that
\* pattern (re.error: unknown extension ?1), so the call raises.
parse_model_output(raw_text) ==
    IF raw_text.form = "sentinel"
    THEN [raised |-> FALSE, value |-> [type |-> "sentinel", grant |-> FullGrant]]
    ELSE IF raw_text.form = "json"
         THEN [raised |-> FALSE, value |-> raw_text.json]
         ELSE [raised |-> TRUE, value |-> raw_text.json]

\* _produce_final_payload, lines 426-434, on the text the request returned:
\* the normalized JSON, the sentinel, or the exception of the parser
final_payload_of(response_text) ==
    LET parsed == parse_model_output(response_text)
    IN IF parsed.raised THEN [raised |-> TRUE, value |-> NULL]
       ELSE IF parsed.value.type = "object"
                  /\ is_valid_final_payload(parsed.value.grant)
            THEN [raised |-> FALSE, value |-> FinalJson]
            ELSE [raised |-> FALSE, value |-> Sentinel]

\* a faulty row update: the write of grant_final is lost
verified_row_without_final(row, outcome) ==
    [row EXCEPT
        !.verified = IF outcome = "claim_fail" \/ outcome = "verified_write_fail"
                     THEN @ ELSE TRUE]

\* the row after lines 151-166 ran on it with the given outcome
verified_row(row, outcome) ==
    [row EXCEPT
        !.verified = IF outcome = "claim_fail" \/ outcome = "verified_write_fail"
                     THEN @ ELSE TRUE,
        !.final = IF outcome \in {"final_json", "final_sentinel"}
                  THEN produce_final_payload(outcome) ELSE @]

\* _update_columns calls that succeeded, applied to the row of that
\* identifier in the table (update_table_rows)
update_columns(rows, row_id, outcome) ==
    [i \in 1..Len(rows) |->
        IF rows[i].id = row_id THEN verified_row(rows[i], outcome) ELSE rows[i]]

DEFAULT_LIMIT == 20

\* _list_target_rows: the rows fetched one by one for row_ids (a fetch that
\* raises, or finds no row, is dropped), or the first `limit` rows of the
\* listing when no row_ids are given ([] when the listing raises)
list_target_rows(row_ids, fetchOk, limit) ==
    IF row_ids # <<>>
    THEN LET fetched(i) == SelectSeq2(store, IF fetchOk[i] THEN {row_ids[i]} ELSE {})
             RECURSIVE collect(_)
             collect(i) == IF i > Len(row_ids) THEN <<>>
                           ELSE fetched(i) \o collect(i + 1)
         IN collect(1)
    ELSE IF fetchOk[1] THEN Truncate(store, limit) ELSE <<>>

\* _coerce_json, lines 265-273, on a grant_scrap cell: the dict json.loads
\* returns, another value, or "raise" when json.loads raises
coerce_json(value) ==
    IF value = ScrapJson THEN "dict"
    ELSE IF value = ScrapText THEN "raise" ELSE "other"

NoSummary ==
    [processed |-> 0, updated_verified |-> 0, updated_final |-> 0,
     skipped |-> 0, failed |-> 0, row_ids |-> <<>>]

RECURSIVE verify_rows(_, _, _)
\* the loop of GrantVerificationAgent.run over the fetched rows; acc holds
\* the table, the summary, and per row what was done and how many gateway
\* requests were issued for it; _coerce_json is called outside the try block
\* (lines 143-144), so when it raises the loop ends and run raises
verify_rows(rows, outcomes, acc) ==
    IF rows = <<>> THEN acc
    ELSE LET row == Head(rows)
             outcome == outcomes[row.id]
             seen == [acc EXCEPT !.summary.row_ids = Append(@, row.id)]
         IN IF has_final_payload(row.final)
            THEN verify_rows(Tail(rows), outcomes,
                     [seen EXCEPT !.summary.skipped = @ + 1,
                                  !.done = Append(@, [id |-> row.id,
                                      what |-> "skipped_final", calls |-> 0,
                                      outcome |-> NULL, updates |-> <<>>])])
            ELSE IF coerce_json(row.scrap) = "raise"
            THEN [seen EXCEPT !.raised = TRUE]
            ELSE IF coerce_json(row.scrap) # "dict"
            THEN verify_rows(Tail(rows), outcomes,
                     [seen EXCEPT !.summary.skipped = @ + 1,
                                  !.done = Append(@, [id |-> row.id,
                                      what |-> "skipped_scrap", calls |-> 0,
                                      outcome |-> NULL, updates |-> <<>>])])
            ELSE verify_rows(Tail(rows), outcomes,
                     [seen EXCEPT
                        !.store = update_columns(@, row.id, outcome),
                        !.summary.updated_verified =
                            IF outcome \in {"claim_fail", "verified_write_fail"}
                            THEN @ ELSE @ + 1,
                        !.summary.updated_final =
                            IF outcome \in {"final_json", "final_sentinel"}
                            THEN @ + 1 ELSE @,
                        !.summary.processed =
                            IF outcome \in {"final_json", "final_sentinel"}
                            THEN @ + 1 ELSE @,
                        !.summary.failed =
                            IF outcome \in {"final_json", "final_sentinel"}
                            THEN @ ELSE @ + 1,
                        !.done = Append(@, [id |-> row.id,
                            what |-> IF outcome \in {"final_json", "final_sentinel"}
                                     THEN "processed" ELSE "failed",
                            calls |-> gateway_calls(outcome),
                            outcome |-> outcome,
                            updates |-> update_attempts(outcome)])])

\* the fetched rows the gateway is called for: those neither line 140 nor
\* line 145 skips, up to the first row on which _coerce_json raises
rows_to_verify(rows) ==
    LET read(j) == ~has_final_payload(rows[j].final)
        raising == {j \in 1..Len(rows) : read(j) /\ coerce_json(rows[j].scrap) = "raise"}
    IN {rows[j].id : j \in {k \in 1..Len(rows) :
                                /\ read(k)
                                /\ coerce_json(rows[k].scrap) = "dict"
                                /\ \A r \in raising : k < r}}

\* GrantVerificationAgent.run, lines 125-170, on the rows line 124 fetched
verifier_run(rows, outcomes) ==
    verify_rows(rows, outcomes,
        [store |-> store, summary |-> NoSummary, done |-> <<>>,
         raised |-> FALSE])

(***************************************************************************)
(* GrantSyncService (grant_sync.py).                                       *)
(***************************************************************************)
\* a faulty where clause: the grant_decider condition is left out
is_pending_any_decision(row) ==
    /\ row.final # NULL
    /\ (row.status = NULL \/ row.status # Synced)

\* the where clause of _list_pending_rows
is_pending(row) ==
    /\ row.final # NULL
    /\ row.decider = Approved
    /\ (row.status = NULL \/ row.status # Synced)

RECURSIVE FilterRows(_)
FilterRows(rows) ==
    IF rows = <<>> THEN <<>>
    ELSE IF is_pending(Head(rows))
         THEN <<Head(rows)>> \o FilterRows(Tail(rows))
         ELSE FilterRows(Tail(rows))

\* limit = max(1, min(limit, 100))
sync_limit(limit) ==
    LET capped == IF limit < 100 THEN limit ELSE 100
    IN IF capped > 1 THEN capped ELSE 1

\* _list_pending_rows: the first `limit` rows the where clause selects
list_pending_rows(limit) == Truncate(FilterRows(store), limit)

\* The texts of a final payload: a name or description, white space only,
\* and a source URL.
GrantText == <<"A">>
BlankText == <<" ">>
UrlText == <<"u">>

\* What a key of the final payload holds: nothing (the key is missing or
\* null), a string, or an object with its keys in order and the strings
\* under them.
NoNode == [kind |-> "none", text |-> <<>>, keys |-> <<>>, fields |-> <<>>]
StrNode(text) == [kind |-> "str", text |-> text, keys |-> <<>>, fields |-> <<>>]
DictNode(keys, fields) ==
    [kind |-> "dict", text |-> <<>>, keys |-> keys, fields |-> fields]

\* grant_final cells other than the sentinel and the complete JSON object
\* (FinalJson).  _is_valid_final_payload tests the keys of the object and
\* not the strings under them, so Verification can store each of the
\* objects; the text that is not JSON is what another writer left.
FinalUrlOnlyName == "json: grantName.value blank"
FinalNoName == "json: grantName null"
FinalBlankDescription == "json: grantDescription.text blank, no sourceUrl"
FinalStringDescription == "json: grantDescription a string"
FinalEmptyObject == "json: {}"
FinalText == "not json"

CompleteName == DictNode(<<"value", "sourceUrl">>,
                         [value |-> GrantText, sourceUrl |-> UrlText])
CompleteDescription == DictNode(<<"text", "sourceUrl">>,
                                [text |-> GrantText, sourceUrl |-> UrlText])

\* _coerce_json, lines 200-211, on a grant_final cell: json.loads raises
\* (RowFailure), or returns the object, of which the model keeps what is
\* under grantName and grantDescription
final_data(cell) ==
    LET object(name, description) ==
            [type |-> "dict", grantName |-> name, grantDescription |-> description]
    IN CASE cell = FinalJson -> object(CompleteName, CompleteDescription)
         [] cell = FinalUrlOnlyName ->
                object(DictNode(<<"value", "sourceUrl">>,
                                [value |-> BlankText, sourceUrl |-> UrlText]),
                       CompleteDescription)
         [] cell = FinalNoName -> object(NoNode, CompleteDescription)
         [] cell = FinalBlankDescription ->
                object(CompleteName, DictNode(<<"text">>, [text |-> BlankText]))
         [] cell = FinalStringDescription ->
                object(CompleteName, StrNode(GrantText))
         [] cell = FinalEmptyObject ->
                [type |-> "empty", grantName |-> NoNode, grantDescription |-> NoNode]
         [] OTHER ->
                [type |-> "raise", grantName |-> NoNode, grantDescription |-> NoNode]

\* _normalize_text on a string: stripped, None (here <<>>) when empty
normalize_text(text) == Strip(text)

\* the text when it is not empty, else the other one
text_or(text, other) == IF text # <<>> THEN text ELSE other

\* the normalized text under the key, <<>> when the node has no such key
key_text(node, key) ==
    IF key \in SeqToSet(node.keys) THEN normalize_text(node.fields[key]) ELSE <<>>

RECURSIVE first_text(_, _, _)
\* the first of the keys the node has whose text is not empty (lines 269-273)
first_text(node, keys, i) ==
    IF i > Len(keys) THEN <<>>
    ELSE text_or(key_text(node, keys[i]), first_text(node, keys, i + 1))

\* "\n".join of a text and the texts joined after it, the empty ones left out
join_text(text, rest) ==
    IF text = <<>> THEN rest
    ELSE IF rest = <<>> THEN text
    ELSE text \o <<"\n">> \o rest

RECURSIVE joined_texts(_, _)
\* "\n".join of the texts of node.values() that are not empty (lines 275-278)
joined_texts(node, i) ==
    IF i > Len(node.keys) THEN <<>>
    ELSE join_text(normalize_text(node.fields[node.keys[i]]),
                   joined_texts(node, i + 1))

\* _extract_text, lines 263-285
extract_text(node) ==
    IF node.kind = "none" THEN <<>>
    ELSE IF node.kind = "str" THEN normalize_text(node.text)
    ELSE text_or(first_text(node, <<"description", "text", "value", "range">>, 1),
                 joined_texts(node, 1))

\* _map_grant_to_knowledge_row, lines 213-243: the two required fields of the
\* knowledge row (the objects of the model have no grant_name and no
\* grant_description key); line 234 calls .get on grantDescription when it
\* is not empty, which raises AttributeError when it is a string
map_grant_to_knowledge_row(grant_data) ==
    [raised |-> grant_data.grantDescription.kind = "str"
                    /\ grant_data.grantDescription.text # <<>>,
     grant_name |-> extract_text(grant_data.grantName),
     grant_description |-> extract_text(grant_data.grantDescription)]

NoPayload == [grant_name |-> <<>>, grant_description |-> <<>>]

\* a faulty _prepare_knowledge_payload: the sentinel is not recognised
prepare_any_payload(row) ==
    [kind |-> "payload",
     payload |-> [grant_name |-> GrantText, grant_description |-> GrantText]]

\* the payload made of the mapped row, its fields not checked
mapped_payload(mapped) ==
    [kind |-> "payload",
     payload |-> [grant_name |-> mapped.grant_name,
                  grant_description |-> mapped.grant_description]]

\* a faulty _prepare_knowledge_payload: the required fields are not checked
prepare_unchecked_payload(row) ==
    IF row.final = Sentinel THEN [kind |-> "skip", payload |-> NoPayload]
    ELSE mapped_payload(map_grant_to_knowledge_row(final_data(row.final)))

\* lines 183-188 on the mapped row: RowFailure when grant_name or
\* grant_description is missing, "raise" when the mapping raised
checked_payload(mapped) ==
    IF mapped.raised THEN [kind |-> "raise", payload |-> NoPayload]
    ELSE IF mapped.grant_name = <<>> \/ mapped.grant_description = <<>>
    THEN [kind |-> "fail", payload |-> NoPayload]
    ELSE mapped_payload(mapped)

\* lines 179-188 on what _coerce_json returned: RowFailure unless it is an
\* object that is not empty
payload_of(grant_data) ==
    IF grant_data.type # "dict" THEN [kind |-> "fail", payload |-> NoPayload]
    ELSE checked_payload(map_grant_to_knowledge_row(grant_data))

\* _prepare_knowledge_payload, lines 170-188: "skip" (RowSkip, the sentinel),
\* "fail" (RowFailure), "raise" (another exception) or the payload
prepare_knowledge_payload(row) ==
    IF row.final = NULL THEN [kind |-> "fail", payload |-> NoPayload]
    ELSE IF row.final = Sentinel THEN [kind |-> "skip", payload |-> NoPayload]
    ELSE payload_of(final_data(row.final))

\* the status mark of a row whose payload could not be prepared (RowFailure)
FailedPayload == "failed: payload"

\* the mark for what _prepare_knowledge_payload and the insertion did
mark_of(prepared, insertOk) ==
    IF prepared = "skip" THEN Skipped
    ELSE IF prepared = "fail" THEN FailedPayload
    ELSE IF insertOk THEN Synced ELSE Failed

\* a faulty mark: the row is marked synced whatever the insertion did
status_mark_always_synced(row, insertOk) ==
    mark_of(prepare_knowledge_payload(row).kind, TRUE)

\* the status mark lines 110-137 put into `updates` for one selected row
status_mark(row, insertOk) ==
    mark_of(prepare_knowledge_payload(row).kind, insertOk)

\* whether _insert_knowledge_row is called for the row
insert_attempted(row) == prepare_knowledge_payload(row).kind = "payload"

\* the rows the loop of lines 110-137 gets to: all of them, or those up to
\* the first one for which _prepare_knowledge_payload raises
rows_reached(rows) ==
    LET raising == {j \in 1..Len(rows) :
                       prepare_knowledge_payload(rows[j]).kind = "raise"}
    IN SubSeq(rows, 1, IF raising = {} THEN Len(rows)
                       ELSE CHOOSE j \in raising : \A k \in raising : j <= k)

\* the identifiers of those of the rows that have a payload
insert_ids(reached) ==
    {reached[i].id : i \in {j \in 1..Len(reached) : insert_attempted(reached[j])}}

\* the selected rows _insert_knowledge_row is called for
rows_to_insert(rows) == insert_ids(rows_reached(rows))

\* _update_action_rows: the marks written to the table in one call
update_action_rows(rows, updates) ==
    [i \in 1..Len(rows) |->
        IF rows[i].id \in DOMAIN updates
        THEN [rows[i] EXCEPT !.status = updates[rows[i].id]]
        ELSE rows[i]]

\* a faulty count: rows whose payload could not be prepared are not counted
count_without_row_failures(updates, marks) ==
    Cardinality({id \in DOMAIN updates : updates[id] \in marks \ {FailedPayload}})

\* how many of the collected marks are among `marks`: the counters of the
\* summary, lines 120, 126, 135 and 141
CountMarks(updates, marks) ==
    Cardinality({id \in DOMAIN updates : updates[id] \in marks})

\* lines 110-137 for one row whose payload was prepared or refused: its mark
\* collected, the insertion and the entry recorded
sync_row(row, prepared, insertOk, acc) ==
    LET ok == prepared.kind = "payload" /\ insertOk[row.id]
    IN [acc EXCEPT
           !.handled = Append(@, row.id),
           !.updates = [id \in DOMAIN @ \cup {row.id} |->
                           IF id = row.id THEN status_mark(row, ok) ELSE @[id]],
           !.attempts = IF prepared.kind = "payload"
                        THEN Append(@, [id |-> row.id, ok |-> ok])
                        ELSE @,
           !.entries = IF ok
                       THEN Append(@, [id |-> row.id, payload |-> prepared.payload])
                       ELSE @]

RECURSIVE sync_rows(_, _, _)
\* the loop of lines 110-137 over the selected rows: the marks collected,
\* the rows handled and the entries inserted, in order; an exception of
\* _prepare_knowledge_payload that is neither RowSkip nor RowFailure ends
\* the loop and the call
sync_rows(rows, insertOk, acc) ==
    IF rows = <<>> THEN acc
    ELSE IF prepare_knowledge_payload(Head(rows)).kind = "raise"
    THEN [acc EXCEPT !.handled = Append(@, Head(rows).id), !.raised = TRUE]
    ELSE sync_rows(Tail(rows), insertOk,
                   sync_row(Head(rows), prepare_knowledge_payload(Head(rows)),
                            insertOk, acc))

\* what sync_pending_grants leaves and returns after the loop over the
\* selected rows: the batch update of lines 139-141 and the summary
sync_outcome(rows, loop, listOk, updateOk) ==
    LET updates == loop.updates
        inserted == {loop.entries[i].id : i \in 1..Len(loop.entries)}
        update_called == ~loop.raised /\ DOMAIN updates # {}
    IN [store |-> IF update_called /\ updateOk
                  THEN update_action_rows(store, updates) ELSE store,
        knowledge |-> [id \in DOMAIN knowledge |->
                          IF id \in inserted THEN knowledge[id] + 1
                          ELSE knowledge[id]],
        raised |-> ~listOk \/ loop.raised \/ (update_called /\ ~updateOk),
        selected |-> [i \in 1..Len(rows) |-> rows[i].id],
        handled |-> loop.handled,
        attempts |-> loop.attempts,
        entries |-> loop.entries,
        update_calls |-> IF update_called
                         THEN <<[ids |-> DOMAIN updates, ok |-> updateOk]>>
                         ELSE <<>>,
        inserted |-> inserted,
        updates |-> updates,
        summary |-> [processed |-> Len(rows),
                     synced |-> CountMarks(updates, {Synced}),
                     failed |-> CountMarks(updates, {Failed, FailedPayload}),
                     skipped |-> CountMarks(updates, {Skipped})]]

\* lines 110-141 on the rows selected
sync_selected(rows, listOk, insertOk, updateOk) ==
    sync_outcome(rows,
                 sync_rows(rows, insertOk,
                           [updates |-> <<>>, handled |-> <<>>, attempts |-> <<>>,
                            entries |-> <<>>, raised |-> FALSE]),
                 listOk, updateOk)

\* sync_pending_grants: the table, the knowledge table and the summary, or
\* raised = TRUE when the listing, the preparation of a payload or the batch
\* update raised out of the call
sync_pending_grants(limit, listOk, insertOk, updateOk) ==
    sync_selected(IF listOk THEN list_pending_rows(sync_limit(limit)) ELSE <<>>,
                  listOk, insertOk, updateOk)

(***************************************************************************)
(* _wait_for_grant_decider (grant_pipeline_worker.py).                     *)
(***************************************************************************)
\* a faulty poller: a fetch that raises is reported as a failure of the row
decider_value_or_error(row_id, fetchOk) ==
    LET found == SelectSeq2(store, {row_id})
    IN IF ~fetchOk THEN "error"
       ELSE IF found = <<>> THEN NULL ELSE found[1].decider

\* the grant_decider cell of the row with that identifier, None when the
\* fetch raises, the row is gone or the cell is empty
decider_value(row_id, fetchOk) ==
    LET found == SelectSeq2(store, IF fetchOk THEN {row_id} ELSE {})
    IN IF found = <<>> THEN NULL ELSE found[1].decider

\* one round of the polling loop over the pending rows
poll_round(pending, decider_results, fetchOk) ==
    [pending |-> {id \in pending : decider_value(id, fetchOk[id]) = NULL},
     decider_results |->
        [id \in DOMAIN decider_results |->
            IF id \in pending /\ decider_value(id, fetchOk[id]) # NULL
            THEN decider_value(id, fetchOk[id])
            ELSE decider_results[id]]]

(***************************************************************************)
(* WebScraperAgent._make_ai_request_with_retry (agent1.py).                *)
(***************************************************************************)
\* what generate_content can raise: the words the message carries ({} stands
\* for no exception)
GatewayErrors == {{"quota"}, {"429"}, {"quota", "429"}, {"other"}}

\* a faulty line 355: every exception is taken for a rate limit
is_always_rate_limited(e) == TRUE

\* line 355: "quota" in str(e).lower() or "429" in str(e)
is_rate_limited(e) == "quota" \in e \/ "429" \in e

RECURSIVE Pow2(_)
Pow2(n) == IF n = 0 THEN 1 ELSE 2 * Pow2(n - 1)

\* line 356: min(120, 15 * (2 ** attempt))
wait_time(attempt) ==
    IF 15 * Pow2(attempt) < 120 THEN 15 * Pow2(attempt) ELSE 120

\* a faulty loop bound: one attempt more than max_retries
may_attempt_once_more(attempt, max_retries) == attempt <= max_retries

\* line 347: the loop runs while attempt < max_retries
may_attempt(attempt, max_retries) == attempt < max_retries

(***************************************************************************)
(* The state machine.                                                      *)
(***************************************************************************)
SeqsUpTo(S, n) == UNION {[1..k -> S] : k \in 0..n}

MaxId == MaxInitRows + MaxNewRows

NoRun ==
    [present |-> {}, existing |-> {}, scrape |-> <<>>, row_ids |-> <<>>,
     pending |-> {}, decider_results |-> <<>>, rounds |-> 0, reported |-> {},
     verifying |-> <<>>, clock |-> 0, deadline |-> 0, fetched |-> 0,
     syncing |-> <<>>, wait_seconds |-> 0, slept |-> 0]

IdleGateway ==
    [pc |-> "idle", max_retries |-> 0, attempt |-> 0, requests |-> 0,
     waits |-> <<>>, result |-> NULL, last |-> {}, errors |-> <<>>]

\* The process environment: whether GEMINI_API_KEY, OPENAI_API_KEY and the
\* JamAI credentials are set (agent1.py:20-31, agent2.py:16-27), whether
\* _handle_signal has set _shutdown_requested, and whether the worker was
\* started with --run-once.
Configured ==
    [gemini |-> TRUE, openai |-> TRUE, jamai |-> TRUE,
     shutdown_requested |-> FALSE, run_once |-> FALSE]

\* The tables of at most MaxInitRows rows, with identifiers 1, 2, ..., whose
\* rows are new rows that went through the given columns' lifecycles.
Tables(names, lifecycles) ==
    LET rowsAt(id) ==
            {[NewRow(id, [name |-> n]) EXCEPT !.verified = l.verified,
                  !.final = l.final, !.decider = l.decider, !.status = l.status] :
                n \in names, l \in lifecycles}
    IN UNION {{t \in [1..k -> UNION {rowsAt(id) : id \in 1..k}] :
                  \A i \in 1..k : t[i].id = i} : k \in 0..MaxInitRows}

\* a row Upsert just inserted
Fresh == [verified |-> FALSE, final |-> NULL, decider |-> NULL, status |-> NULL]
\* a row Verification finalized, with a JSON payload or with the sentinel
Finalized == [Fresh EXCEPT !.verified = TRUE, !.final = FinalJson]
Unverifiable == [Fresh EXCEPT !.verified = TRUE, !.final = Sentinel]
\* a finalized row the decider approved, and one Sync then marked synced
ApprovedRow == [Finalized EXCEPT !.decider = Approved]
ApprovedSentinel == [Unverifiable EXCEPT !.decider = Approved]
SyncedRow == [ApprovedRow EXCEPT !.status = Synced]

\* where _run_pipeline leaves the worker: run_worker returns after the one
\* run of --run-once (lines 217-219), and otherwise waits for the next day,
\* also when the run raised (lines 231-234)
after_run == IF env.run_once THEN "done" ELSE "idle"
after_raise == IF env.run_once THEN "crashed" ELSE "idle"

InitIn(tables, environments) ==
    /\ store \in tables
    /\ knowledge = [id \in 1..MaxId |-> 0]
    /\ nextId = MaxInitRows + 1
    /\ pc = "idle"
    /\ run = NoRun
    /\ res = [op |-> "init"]
    /\ gw = IdleGateway
    /\ env \in environments

InitWith(tables) == InitIn(tables, {Configured})

\* the scrap_result table is empty when the first pipeline run starts
Init == InitWith({<<>>})

\* lines 151-166 of scrape_all_grants: the names a detail request is made for
names_to_scrape(existing_grant_names, listed, max_candidates) ==
    LET grant_names == Truncate(listed, candidate_limit(max_candidates))
    IN IF existing_grant_names # {}
       THEN filter_existing(grant_names, existing_grant_names,
                [skipped_existing |-> <<>>, filtered_names |-> <<>>]).filtered_names
       ELSE grant_names

\* run_scraper_job, lines 810-814: the names already in the table are read,
\* then scrape_all_grants lists names and requests the details; caps are
\* the values of max_candidates the caller may pass and `at` is where the
\* caller stands when it calls
DiscoverAt(at, caps) ==
    /\ pc = at
    /\ env.gemini /\ env.jamai
    /\ \E readOk \in BOOLEAN, listed \in SeqsUpTo(RawNames, MaxListed),
          max_candidates \in caps :
          LET existing_names == get_existing_grant_names(readOk)
              todo == names_to_scrape(existing_names, listed, max_candidates)
          IN \E details \in [1..Len(todo) -> DetailOutcomes] :
                LET scrape == scrape_all_grants(existing_names, listed,
                                                max_candidates, details)
                IN /\ nextId + Len(scrape.grant_entries) <= MaxId + 1
                   /\ run' = [NoRun EXCEPT
                                 !.present = get_existing_grant_names(TRUE),
                                 !.existing = existing_names,
                                 !.scrape = scrape]
    /\ pc' = "upsert"
    /\ res' = [op |-> "discover"]
    /\ UNCHANGED <<store, knowledge, nextId, gw, env>>

\* run_scraper_job, lines 765-797: GEMINI_API_KEY or the JamAI credentials
\* are not set; a summary with success = False and no row ids is returned
ScraperNotConfigured ==
    /\ pc = "idle"
    /\ ~(env.gemini /\ env.jamai)
    /\ res' = [op |-> "scraper_not_configured", success |-> FALSE,
               processed_row_ids |-> <<>>,
               errors |-> IF ~env.gemini
                          THEN <<"GEMINI_API_KEY not configured">>
                          ELSE <<"JamAI credentials not configured">>]
    /\ run' = [NoRun EXCEPT !.reported = {"scraper"}]
    /\ pc' = "verify"
    /\ UNCHANGED <<store, knowledge, nextId, gw, env>>

\* _run_pipeline called where the model's runs begin
DiscoverWith(caps) == DiscoverAt("idle", caps)

\* the daily worker, started with --max-candidates 1
Discover == DiscoverWith({1})

\* cron_web_search and run_scraper_job called with a cap of one or two
ScraperDiscover == DiscoverWith({1, 2})

\* run_scraper_job, lines 816-839: the entries are persisted and the
\* ScraperRunSummary is built; the model keeps its counts and lists
run_scraper_summary(scrape, result) ==
    [grants_requested |-> scrape.requested_grant_count,
     grants_scraped |-> Len(scrape.processed_grant_names),
     grants_added |-> result.added,
     grants_updated |-> result.updated,
     processed_row_ids |-> IF result.has_processed_ids
                           THEN result.processed_ids ELSE <<>>,
     skipped_existing |-> scrape.skipped_existing,
     failed_grants |-> scrape.failed_grants]

\* what run_scraper_job leaves in res: its summary, with what Upsert was
\* given, what it returned and the calls it made on the table store;
\* present is the set of names the table really held when the run started
scraper_result(out) ==
    [op |-> "scraper",
     summary |-> run_scraper_summary(run.scrape, out.result),
     result |-> out.result, calls |-> out.calls,
     batch |-> run.scrape.grant_entries,
     grant_names |-> run.scrape.grant_names,
     detail_requests |-> run.scrape.detail_requests,
     answers |-> run.scrape.answers,
     present |-> run.present, existing |-> run.existing]

Upsert ==
    /\ pc = "upsert"
    /\ run.scrape.grant_entries # <<>>
    /\ \E readOk \in BOOLEAN, delOk \in BOOLEAN, addOut \in {"ok", "noids", "fail"} :
          LET out == add_or_update_grant_entries(run.scrape.grant_entries,
                                                 readOk, delOk, addOut)
          IN /\ store' = out.store
             /\ nextId' = out.nextId
             /\ res' = scraper_result(out)
             /\ run' = [NoRun EXCEPT !.row_ids = res'.summary.processed_row_ids]
    /\ pc' = "verify"
    /\ UNCHANGED <<knowledge, gw, env>>

\* run_scraper_job, line 816: no grant entries, nothing is persisted
NoUpsert ==
    /\ pc = "upsert"
    /\ run.scrape.grant_entries = <<>>
    /\ res' = scraper_result(
                  [result |-> [success |-> TRUE, added |-> 0, updated |-> 0,
                               has_processed_ids |-> TRUE, processed_ids |-> <<>>],
                   calls |-> <<>>])
    /\ run' = NoRun
    /\ pc' = "verify"
    /\ UNCHANGED <<store, knowledge, nextId, gw, env>>

\* what a verification run leaves in res: its summary and what it did row
\* by row; repeat says the run before it was a verification of the same
\* row_ids
verify_result(target, out) ==
    [op |-> "verify", target |-> target,
     repeat |-> res.op = "verify" /\ res.target = target,
     raised |-> out.raised,
     summary |-> out.summary, done |-> out.done]

\* _run_pipeline, lines 176-178: run_grant_verifier(row_ids=row_ids); the
\* call is not inside a try block, so when it raises the run ends there
Verify ==
    /\ pc = "verify"
    /\ run.row_ids # <<>>
    /\ env.openai /\ env.jamai
    /\ \E fetchOk \in [1..Len(run.row_ids) -> BOOLEAN] :
          LET rows == list_target_rows(run.row_ids, fetchOk, DEFAULT_LIMIT)
          IN \E outcomes \in [rows_to_verify(rows) -> VerifyOutcomes] :
                LET out == verifier_run(rows, outcomes)
                IN /\ store' = out.store
                   /\ res' = verify_result(run.row_ids, out)
                   /\ pc' = IF out.raised THEN after_raise ELSE "poll"
                   /\ run' = IF out.raised THEN NoRun
                             ELSE [run EXCEPT
                                      !.pending = SeqToSet(run.row_ids),
                                      !.decider_results =
                                          [id \in SeqToSet(run.row_ids) |-> NULL]]
    /\ UNCHANGED <<knowledge, nextId, gw, env>>

\* GrantVerificationAgent.run, lines 106-121: OPENAI_API_KEY or the JamAI
\* credentials are not set; a summary with success = False is returned and
\* _run_pipeline goes on to _wait_for_grant_decider
VerifierNotConfigured ==
    /\ pc = "verify"
    /\ run.row_ids # <<>>
    /\ ~(env.openai /\ env.jamai)
    /\ res' = [op |-> "verifier_not_configured", success |-> FALSE,
               errors |-> IF ~env.openai
                          THEN <<"OPENAI_API_KEY not configured">>
                          ELSE <<"JamAI credentials not configured">>]
    /\ run' = [run EXCEPT !.pending = SeqToSet(run.row_ids),
                          !.decider_results = [id \in SeqToSet(run.row_ids) |-> NULL],
                          !.reported = @ \cup {"verifier"}]
    /\ pc' = "poll"
    /\ UNCHANGED <<store, knowledge, nextId, gw, env>>

\* _run_pipeline, lines 181-183: no new or updated rows
NoVerify ==
    /\ pc = "verify"
    /\ run.row_ids = <<>>
    /\ pc' = "sync"
    /\ res' = [op |-> "noverify"]
    /\ UNCHANGED <<store, knowledge, nextId, run, gw, env>>

\* run_grant_verifier(row_ids=...) called on its own
VerifyRows ==
    /\ pc = "idle"
    /\ \E row_ids \in SeqsUpTo(1..(nextId - 1), MaxBatch) :
          /\ row_ids # <<>>
          /\ \A i, j \in 1..Len(row_ids) : i < j => row_ids[i] < row_ids[j]
          /\ \E fetchOk \in [1..Len(row_ids) -> BOOLEAN] :
                LET rows == list_target_rows(row_ids, fetchOk, DEFAULT_LIMIT)
                IN \E outcomes \in [rows_to_verify(rows) -> VerifyOutcomes] :
                      LET out == verifier_run(rows, outcomes)
                      IN /\ store' = out.store
                         /\ res' = verify_result(row_ids, out)
    /\ UNCHANGED <<knowledge, nextId, pc, run, gw, env>>

\* agent2.py run as a script: run_grant_verifier() with no row_ids
CatchUpVerify ==
    /\ pc = "idle"
    /\ \E fetchOk \in [{1} -> BOOLEAN] :
          LET rows == list_target_rows(<<>>, fetchOk, DEFAULT_LIMIT)
          IN \E outcomes \in [rows_to_verify(rows) -> VerifyOutcomes] :
                LET out == verifier_run(rows, outcomes)
                IN /\ store' = out.store
                   /\ res' = verify_result(<<>>, out)
    /\ UNCHANGED <<knowledge, nextId, pc, run, gw, env>>

\* _wait_for_grant_decider, lines 136-157: one pass of the while loop
PollRound ==
    /\ pc = "poll"
    /\ env.jamai /\ ~env.shutdown_requested
    /\ run.pending # {}
    /\ run.rounds < MaxPollRounds
    /\ \E fetchOk \in [run.pending -> BOOLEAN] :
          LET out == poll_round(run.pending, run.decider_results, fetchOk)
          IN run' = [run EXCEPT !.pending = out.pending,
                                !.decider_results = out.decider_results,
                                !.rounds = @ + 1]
    /\ res' = [op |-> "poll_round"]
    /\ UNCHANGED <<store, knowledge, nextId, pc, gw, env>>

\* _wait_for_grant_decider, lines 124-127, 136 and 159-161: the credentials
\* are missing, or the loop ends because no row is pending, the deadline has
\* passed or a stop was requested; _run_pipeline keeps what is returned in
\* stage_summary["grant_decider"]
PollEnd ==
    /\ pc = "poll"
    /\ \/ run.pending = {}
       \/ run.rounds >= 1
       \/ ~env.jamai
       \/ env.shutdown_requested
    /\ res' = [op |-> "poll", decider_results |-> run.decider_results,
               pending |-> run.pending]
    /\ run' = [NoRun EXCEPT !.decider_results = run.decider_results,
                            !.reported = run.reported]
    /\ pc' = "sync"
    /\ UNCHANGED <<store, knowledge, nextId, gw, env>>

\* what a call of sync_pending_grants leaves in res; repeat says the call
\* before it was a call of sync_pending_grants that returned its summary, and
\* first is what that call selected
sync_result(out) ==
    [op |-> "sync", repeat |-> res.op = "sync" /\ ~res.raised,
     first |-> IF res.op = "sync" /\ ~res.raised THEN res.selected ELSE <<>>,
     raised |-> out.raised,
     selected |-> out.selected, inserted |-> out.inserted,
     handled |-> out.handled, attempts |-> out.attempts,
     entries |-> out.entries, update_calls |-> out.update_calls,
     updates |-> out.updates, summary |-> out.summary]

\* the tables and the result after a call that returned or raised `out`
SyncReturn(out) ==
    /\ \A id \in out.inserted : knowledge[id] < MaxInserts
    /\ store' = out.store
    /\ knowledge' = out.knowledge
    /\ res' = sync_result(out)

\* a call of sync_pending_grants; limit 0 stands for None (limit or 20);
\* without the JamAI settings _ensure_configuration raises (line 98) and the
\* call ends before the listing, as it does when the listing raises
SyncCall ==
    \E limit \in {0, 1}, listOk \in {ok \in BOOLEAN : env.jamai \/ ~ok},
       updateOk \in BOOLEAN :
        \E insertOk \in [rows_to_insert(IF listOk
                              THEN list_pending_rows(sync_limit(
                                       IF limit = 0 THEN 20 ELSE limit))
                              ELSE <<>>) -> BOOLEAN] :
        SyncReturn(sync_pending_grants(IF limit = 0 THEN 20 ELSE limit,
                                       listOk, insertOk, updateOk))

\* _run_pipeline, lines 185-194
Sync ==
    /\ pc = "sync"
    /\ SyncCall
    /\ pc' = after_run
    /\ UNCHANGED <<nextId, run, gw, env>>

\* POST /jamai/sync-grants and the daily sync worker
SyncRoute ==
    /\ pc = "idle"
    /\ SyncCall
    /\ UNCHANGED <<nextId, pc, run, gw, env>>

\* The table store fills grant_decider of a row that has a grant_final.
Decider ==
    /\ \E i \in 1..Len(store), decision \in {Approved, Rejected} :
          /\ store[i].final # NULL
          /\ store[i].decider = NULL
          /\ store' = [store EXCEPT ![i].decider = decision]
    /\ res' = [op |-> "decider"]
    /\ UNCHANGED <<knowledge, nextId, pc, run, gw, env>>

\* Another writer of the table (a human correcting a row) rewrites the
\* grant_scrap cell of a row that has no final payload yet.
Correct ==
    /\ \E i \in 1..Len(store), value \in {ScrapText, ScrapArray} :
          /\ store[i].final = NULL
          /\ store[i].scrap = ScrapJson
          /\ store' = [store EXCEPT ![i].scrap = value]
    /\ res' = [op |-> "correct"]
    /\ UNCHANGED <<knowledge, nextId, pc, run, gw, env>>

\* The daily pipeline: _run_pipeline again and again on an empty table.
Next ==
    \/ Discover
    \/ Upsert
    \/ NoUpsert
    \/ Verify
    \/ NoVerify
    \/ PollRound
    \/ PollEnd
    \/ Sync
    \/ Decider

Spec == Init /\ [][Next]_vars

\* run_scraper_job on a table earlier runs have filled.
InitScraper == InitWith(Tables(RawNames, {Fresh}))

NextScraper ==
    \/ ScraperDiscover
    \/ Upsert
    \/ NoUpsert

SpecScraper == InitScraper /\ [][NextScraper]_vars

\* run_grant_verifier, called again and again on a table earlier runs have
\* filled.
InitVerifier == InitWith(Tables({<<"A">>}, {Fresh, Finalized, Unverifiable}))

NextVerifier ==
    \/ VerifyRows
    \/ CatchUpVerify

SpecVerifier == InitVerifier /\ [][NextVerifier]_vars

\* sync_pending_grants, called again and again while the table store
\* decides on the finalized rows.
InitSync ==
    InitWith(Tables({<<"A">>}, {Fresh, Finalized, Unverifiable, ApprovedRow,
                                ApprovedSentinel, SyncedRow}))

NextSync ==
    \/ SyncRoute
    \/ Decider

SpecSync == InitSync /\ [][NextSync]_vars

\* sync_pending_grants on approved rows whose final payloads are the cells
\* Verification or another writer can leave in grant_final.
FinalCells ==
    {FinalJson, Sentinel, FinalUrlOnlyName, FinalNoName, FinalBlankDescription,
     FinalStringDescription, FinalEmptyObject, FinalText}

InitPayloads ==
    InitWith(Tables({<<"A">>}, {[ApprovedRow EXCEPT !.final = cell] :
                                   cell \in FinalCells}))

NextPayloads == SyncRoute

SpecPayloads == InitPayloads /\ [][NextPayloads]_vars

\* The worker started with --run-once on a table earlier runs have filled:
\* one run of _run_pipeline, with any of the credentials set or not, while
\* the table store decides on rows and another writer edits them.
Environments ==
    {[Configured EXCEPT !.gemini = g, !.openai = o, !.jamai = j,
                        !.run_once = TRUE] : g \in BOOLEAN, o \in BOOLEAN, j \in BOOLEAN}

InitRunOnce == InitIn(Tables({<<"b">>}, {ApprovedRow}), Environments)

\* the steps of _run_pipeline itself
RunPipeline ==
    \/ Discover
    \/ ScraperNotConfigured
    \/ Upsert
    \/ NoUpsert
    \/ Verify
    \/ VerifierNotConfigured
    \/ NoVerify
    \/ PollRound
    \/ PollEnd
    \/ Sync

NextRunOnce ==
    \/ RunPipeline
    \/ Decider
    \/ Correct

SpecRunOnce == InitRunOnce /\ [][NextRunOnce]_vars

\* _run_pipeline runs in one thread from its first line to its return (or to
\* the exception that ends it): a step that can be taken is taken.
FairSpecRunOnce == SpecRunOnce /\ WF_vars(RunPipeline)

(***************************************************************************)
(* _sequential_scraping, candidate by candidate, while a stop signal can   *)
(* arrive.  run.scrape holds the names still to scrape, the name whose     *)
(* detail request is under way (<<>> when none is) and what the loop has   *)
(* collected.                                                              *)
(***************************************************************************)
\* _handle_signal: SIGINT or SIGTERM sets _shutdown_requested
HandleSignal ==
    /\ ~env.shutdown_requested
    /\ env' = [env EXCEPT !.shutdown_requested = TRUE]
    /\ UNCHANGED <<store, knowledge, nextId, pc, run, res, gw>>

\* scrape_all_grants, lines 151-176: the names are listed and filtered, and
\* _sequential_scraping is entered
StartScraping ==
    /\ pc = "idle"
    /\ env.gemini /\ env.jamai
    /\ \E readOk \in BOOLEAN, listed \in SeqsUpTo(RawNames, MaxListed),
          max_candidates \in {1, 2} :
          run' = [NoRun EXCEPT !.scrape =
                     [todo |-> names_to_scrape(get_existing_grant_names(readOk),
                                               listed, max_candidates),
                      current |-> <<>>,
                      acc |-> [detail_requests |-> <<>>, scraped_grants |-> <<>>,
                               processed_grant_names |-> <<>>,
                               failed_grants |-> <<>>]]]
    /\ pc' = "scraping"
    /\ res' = [op |-> "listed"]
    /\ UNCHANGED <<store, knowledge, nextId, gw, env>>

\* lines 245-250: the loop takes the next name and issues its detail
\* request; nothing in the loop reads _shutdown_requested
ScrapeBegin ==
    /\ pc = "scraping"
    /\ run.scrape.current = <<>>
    /\ run.scrape.todo # <<>>
    /\ run' = [run EXCEPT !.scrape.current = Head(run.scrape.todo),
                          !.scrape.todo = Tail(run.scrape.todo)]
    /\ res' = [op |-> "detail_request"]
    /\ UNCHANGED <<store, knowledge, nextId, pc, gw, env>>

\* lines 250-263: the answer arrives and is kept or counted as failed
ScrapeFinish ==
    /\ pc = "scraping"
    /\ run.scrape.current # <<>>
    /\ \E detail \in DetailOutcomes :
          run' = [run EXCEPT
                     !.scrape.acc = sequential_scraping(<<run.scrape.current>>,
                                                        <<detail>>, @),
                     !.scrape.current = <<>>]
    /\ res' = [op |-> "detail_answer"]
    /\ UNCHANGED <<store, knowledge, nextId, pc, gw, env>>

\* lines 269-270 and 178-182: the loop is over, the entries are built
ScrapeEnd ==
    /\ pc = "scraping"
    /\ run.scrape.current = <<>>
    /\ run.scrape.todo = <<>>
    /\ res' = [op |-> "scraped",
               detail_requests |-> run.scrape.acc.detail_requests,
               failed_grants |-> run.scrape.acc.failed_grants,
               grant_entries |-> create_grant_entries(run.scrape.acc.scraped_grants)]
    /\ run' = NoRun
    /\ pc' = "scraped"
    /\ UNCHANGED <<store, knowledge, nextId, gw, env>>

NextStop ==
    \/ StartScraping
    \/ ScrapeBegin
    \/ ScrapeFinish
    \/ ScrapeEnd
    \/ HandleSignal

InitStop == InitWith(Tables(RawNames, {Fresh}))

SpecStop == InitStop /\ [][NextStop]_vars

(***************************************************************************)
(* _wait_for_grant_decider with its clock, called on its own while a stop  *)
(* signal can arrive and the table store decides on rows.  Time is counted *)
(* in poll intervals: run.clock is time.time() since the call started,     *)
(* run.deadline is max(1, timeout).                                        *)
(***************************************************************************)
\* the orders in which a set can be iterated
Orders(S) ==
    {order \in [1..Cardinality(S) -> S] :
        \A i, j \in 1..Cardinality(S) : i # j => order[i] # order[j]}

\* a faulty loop condition: the stop flag is not read
may_poll_ignoring_stop(pending, clock, deadline, shutdown_requested) ==
    pending # {} /\ clock < deadline

\* a faulty loop condition: the deadline is not read
may_poll_past_deadline(pending, clock, deadline, shutdown_requested) ==
    pending # {} /\ ~shutdown_requested

\* line 136: while pending and time.time() < deadline and not
\* _shutdown_requested
may_poll(pending, clock, deadline, shutdown_requested) ==
    pending # {} /\ clock < deadline /\ ~shutdown_requested

\* lines 132-134
WaitStart ==
    /\ pc = "idle"
    /\ env.jamai
    /\ \E row_ids \in SeqsUpTo(1..(nextId - 1), MaxBatch), timeout \in 0..MaxPollRounds :
          /\ row_ids # <<>>
          /\ \A i, j \in 1..Len(row_ids) : i # j => row_ids[i] # row_ids[j]
          /\ run' = [NoRun EXCEPT
                        !.row_ids = row_ids,
                        !.pending = SeqToSet(row_ids),
                        !.decider_results = [id \in SeqToSet(row_ids) |-> NULL],
                        !.deadline = IF timeout > 1 THEN timeout ELSE 1]
    /\ pc' = "waiting"
    /\ res' = [op |-> "wait_start"]
    /\ UNCHANGED <<store, knowledge, nextId, gw, env>>

\* lines 136-157: one pass of the while loop.  pending is a set, and
\* list(pending) lists it in the order of the hashes of the identifiers,
\* which differs from process to process; when rows are still pending the
\* loop sleeps one poll interval, and the fetches take time as well
WaitRound ==
    /\ pc = "waiting"
    /\ may_poll(run.pending, run.clock, run.deadline, env.shutdown_requested)
    /\ \E fetchOk \in [run.pending -> BOOLEAN], order \in Orders(run.pending),
          elapsed \in 0..1 :
          LET out == poll_round(run.pending, run.decider_results, fetchOk)
              slept == IF out.pending # {} THEN 1 ELSE 0
              now == run.clock + elapsed + slept
          IN /\ run' = [run EXCEPT
                           !.pending = out.pending,
                           !.decider_results = out.decider_results,
                           !.fetched = IF \E id \in run.pending : fetchOk[id]
                                       THEN 1 ELSE @,
                           !.clock = IF now < run.deadline THEN now
                                     ELSE run.deadline]
             /\ res' = [op |-> "wait_round", given |-> run.row_ids,
                        polled |-> order, started_at |-> run.clock,
                        deadline |-> run.deadline, slept |-> slept,
                        stop_requested |-> env.shutdown_requested]
    /\ UNCHANGED <<store, knowledge, nextId, pc, gw, env>>

\* lines 159-161: the loop is over; the results are returned
WaitReturn ==
    /\ pc = "waiting"
    /\ ~may_poll(run.pending, run.clock, run.deadline, env.shutdown_requested)
    /\ res' = [op |-> "wait", given |-> run.row_ids,
               decider_results |-> run.decider_results,
               pending |-> run.pending, clock |-> run.clock,
               deadline |-> run.deadline, fetched |-> run.fetched,
               stop_requested |-> env.shutdown_requested]
    /\ run' = NoRun
    /\ pc' = "idle"
    /\ UNCHANGED <<store, knowledge, nextId, gw, env>>

\* the steps of _wait_for_grant_decider itself
Wait ==
    \/ WaitRound
    \/ WaitReturn

NextWait ==
    \/ WaitStart
    \/ Wait
    \/ HandleSignal
    \/ Decider

InitWait == InitWith(Tables({<<"A">>}, {Fresh, Finalized, ApprovedRow}))

SpecWait == InitWait /\ [][NextWait]_vars

\* _wait_for_grant_decider runs in one thread: its loop goes on until it
\* returns
FairSpecWait == SpecWait /\ WF_vars(Wait)

(***************************************************************************)
(* GrantVerificationAgent.run, request by request.  run.verifying holds    *)
(* the rows still to verify (the first is the one in hand), the requests   *)
(* that row has been answered, and the rows reported as processed and as   *)
(* failed; gw is the call of _call_openai_chat under way.                  *)
(***************************************************************************)
\* the chat requests one row needs: four claims (_process_input), then the
\* final payload (_produce_final_payload)
ClaimRequests == 4
RowRequests == ClaimRequests + 1

\* run, lines 123-149: the rows are fetched; those with a final payload or
\* without a dict in grant_scrap are skipped
VerifyStart ==
    /\ pc = "idle"
    /\ \E row_ids \in SeqsUpTo(1..(nextId - 1), MaxBatch) :
          /\ row_ids # <<>>
          /\ \A i, j \in 1..Len(row_ids) : i < j => row_ids[i] < row_ids[j]
          /\ \E fetchOk \in [1..Len(row_ids) -> BOOLEAN] :
                LET rows == list_target_rows(row_ids, fetchOk, DEFAULT_LIMIT)
                    todo == SelectSeq2(rows, rows_to_verify(rows))
                IN run' = [NoRun EXCEPT !.verifying =
                              [todo |-> [i \in 1..Len(todo) |-> todo[i].id],
                               request |-> 0, processed |-> <<>>,
                               failed |-> <<>>]]
    /\ pc' = "verifying"
    /\ gw' = IdleGateway
    /\ res' = [op |-> "verify_start"]
    /\ UNCHANGED <<store, knowledge, nextId, env>>

\* _call_openai_chat, lines 436-446: chat.completions.create is called, once
ChatRequest ==
    /\ pc = "verifying"
    /\ run.verifying.todo # <<>>
    /\ gw.pc # "request"
    /\ gw' = [IdleGateway EXCEPT !.pc = "request"]
    /\ res' = [op |-> "chat_request"]
    /\ UNCHANGED <<store, knowledge, nextId, pc, run, env>>

\* what can follow the answer to the n-th request of a row: the next
\* request, or after the fourth the update of grant_verified failing, or
\* after the fifth one of the ways the row ends
after_response(n) ==
    IF n < ClaimRequests THEN {"next"}
    ELSE IF n = ClaimRequests THEN {"next", "verified_write_fail"}
    ELSE {"final_request_fail", "final_write_fail", "final_json", "final_sentinel"}

\* lines 450-451, and what run does with the answer (lines 152-162)
ChatRespond ==
    /\ pc = "verifying"
    /\ gw.pc = "request"
    /\ gw' = [gw EXCEPT !.pc = "done", !.requests = @ + 1,
                        !.result = "response", !.last = {}]
    /\ LET row_id == Head(run.verifying.todo)
           n == run.verifying.request + 1
       IN \E then \in after_response(n) :
             /\ store' = IF then = "next" /\ n < ClaimRequests THEN store
                         ELSE IF then = "next"
                              THEN update_columns(store, row_id, "final_request_fail")
                              ELSE update_columns(store, row_id, then)
             /\ run' = IF then = "next"
                       THEN [run EXCEPT !.verifying.request = n]
                       ELSE [run EXCEPT
                                !.verifying.todo = Tail(@),
                                !.verifying.request = 0,
                                !.verifying.processed =
                                    IF then \in {"final_json", "final_sentinel"}
                                    THEN Append(@, row_id) ELSE @,
                                !.verifying.failed =
                                    IF then \in {"final_json", "final_sentinel"}
                                    THEN @
                                    ELSE Append(@, [id |-> row_id, error |-> {then},
                                                    requests |-> 1, waits |-> <<>>])]
    /\ res' = [op |-> "chat_response"]
    /\ UNCHANGED <<knowledge, nextId, pc, env>>

\* lines 447-448: the request raises and _call_openai_chat raises
\* RuntimeError at once; lines 163-166 of run report the row as failed
ChatRaise ==
    /\ pc = "verifying"
    /\ gw.pc = "request"
    /\ \E e \in GatewayErrors :
          /\ gw' = [gw EXCEPT !.pc = "done", !.requests = @ + 1, !.last = e,
                              !.result = NULL]
          /\ run' = [run EXCEPT
                        !.verifying.todo = Tail(@),
                        !.verifying.request = 0,
                        !.verifying.failed =
                            Append(@, [id |-> Head(run.verifying.todo), error |-> e,
                                       requests |-> gw.requests + 1,
                                       waits |-> gw.waits])]
    /\ res' = [op |-> "chat_error"]
    /\ UNCHANGED <<store, knowledge, nextId, pc, env>>

\* lines 168-170: the loop is over and the summary is returned
VerifyFinish ==
    /\ pc = "verifying"
    /\ run.verifying.todo = <<>>
    /\ res' = [op |-> "verified", processed |-> run.verifying.processed,
               failed |-> run.verifying.failed]
    /\ run' = NoRun
    /\ gw' = IdleGateway
    /\ pc' = "idle"
    /\ UNCHANGED <<store, knowledge, nextId, env>>

NextChat ==
    \/ VerifyStart
    \/ ChatRequest
    \/ ChatRespond
    \/ ChatRaise
    \/ VerifyFinish

InitChat == InitWith(Tables({<<"A">>}, {Fresh, Finalized, Unverifiable}))

SpecChat == InitChat /\ [][NextChat]_vars

(***************************************************************************)
(* One call of _make_ai_request_with_retry, request by request.            *)
(***************************************************************************)
\* the call starts: attempt = 0; self.errors keeps what earlier calls left
GatewayCall ==
    /\ gw.pc \in {"idle", "done"}
    /\ Len(gw.errors) < MaxErrors
    /\ \E max_retries \in 0..MaxRetries :
          gw' = [IdleGateway EXCEPT !.pc = "request",
                                    !.max_retries = max_retries,
                                    !.errors = gw.errors]
    /\ UNCHANGED <<store, knowledge, nextId, pc, run, res, env>>

\* generate_content returns a response
GatewayRespond ==
    /\ gw.pc = "request"
    /\ may_attempt(gw.attempt, gw.max_retries)
    /\ gw' = [gw EXCEPT !.pc = "done", !.requests = @ + 1,
                        !.result = "response", !.last = {}]
    /\ UNCHANGED <<store, knowledge, nextId, pc, run, res, env>>

\* generate_content raises: a rate limit is waited out and the loop goes on,
\* anything else ends the call
GatewayRaise ==
    /\ gw.pc = "request"
    /\ may_attempt(gw.attempt, gw.max_retries)
    /\ \E e \in GatewayErrors :
          gw' = IF is_rate_limited(e)
                THEN [gw EXCEPT !.requests = @ + 1, !.last = e,
                                !.waits = Append(@, wait_time(gw.attempt)),
                                !.attempt = @ + 1]
                ELSE [gw EXCEPT !.pc = "done", !.requests = @ + 1, !.last = e,
                                !.result = NULL,
                                !.errors = Append(@, "request error")]
    /\ UNCHANGED <<store, knowledge, nextId, pc, run, res, env>>

\* lines 364-366: the loop is exhausted
GatewayGiveUp ==
    /\ gw.pc = "request"
    /\ ~may_attempt(gw.attempt, gw.max_retries)
    /\ gw' = [gw EXCEPT !.pc = "done", !.result = NULL,
                        !.errors = Append(@, "quota limit reached")]
    /\ UNCHANGED <<store, knowledge, nextId, pc, run, res, env>>

NextRetry ==
    \/ GatewayCall
    \/ GatewayRespond
    \/ GatewayRaise
    \/ GatewayGiveUp

SpecRetry == Init /\ [][NextRetry]_vars

(***************************************************************************)
(* _validate_exact_structure, applied to the records answers parse to.     *)
(***************************************************************************)
InitValidator ==
    /\ store = <<>>
    /\ knowledge = [id \in 1..MaxId |-> 0]
    /\ nextId = MaxInitRows + 1
    /\ pc = "idle"
    /\ run = NoRun
    /\ res \in {[op |-> "parsed", grant |-> g] : g \in ParsedRecords}
    /\ gw = IdleGateway
    /\ env = Configured

\* _parse_single_grant_response, line 403: the validator is called on what
\* json.loads returned
ValidateExactStructure ==
    /\ res.op = "parsed"
    /\ res' = [op |-> "validated", grant |-> res.grant,
               accepted |-> validate_exact_structure(res.grant)]
    /\ UNCHANGED <<store, knowledge, nextId, pc, run, gw, env>>

NextValidator == ValidateExactStructure

SpecValidator == InitValidator /\ [][NextValidator]_vars

(***************************************************************************)
(* _produce_final_payload, applied to the texts the model can return.      *)
(***************************************************************************)
InitFinalPayload ==
    /\ store = <<>>
    /\ knowledge = [id \in 1..MaxId |-> 0]
    /\ nextId = MaxInitRows + 1
    /\ pc = "idle"
    /\ run = NoRun
    /\ res \in {[op |-> "response", text |-> text] : text \in ModelTexts}
    /\ gw = IdleGateway
    /\ env = Configured

\* _produce_final_payload, lines 418-434, once _call_openai_chat returned
ProduceFinalPayload ==
    /\ res.op = "response"
    /\ res' = [op |-> "final", text |-> res.text,
               raised |-> final_payload_of(res.text).raised,
               value |-> final_payload_of(res.text).value]
    /\ UNCHANGED <<store, knowledge, nextId, pc, run, gw, env>>

NextFinalPayload == ProduceFinalPayload

SpecFinalPayload == InitFinalPayload /\ [][NextFinalPayload]_vars

(***************************************************************************)
(* Upsert: add_or_update_grant_entries.                                    *)
(***************************************************************************)
\* the step is a call of add_or_update_grant_entries
UpsertStep == pc = "upsert" /\ res'.op = "scraper" /\ res'.calls # <<>>

\* the calls of one kind the operation made on the table store
CallsOf(calls, kind) == {i \in 1..Len(calls) : calls[i].call = kind}

\* every call the operation made on the table store succeeded
AllCallsOk(calls) == \A i \in 1..Len(calls) : calls[i].ok

\* how many rows carry the normalized name n
CountName(rows, n) == Cardinality({i \in 1..Len(rows) : Normalize(rows[i].name) = n})

\* the rows of the table a candidate of the batch matches by normalized name
MatchedRows(rows, batch) ==
    {j \in 1..Len(rows) :
        /\ Normalize(rows[j].name) # <<>>
        /\ \E i \in 1..Len(batch) : Normalize(batch[i].name) = Normalize(rows[j].name)}

\* C1: after add_or_update_grant_entries, even when every call on the table
\* store succeeded, every row a candidate matched by normalized name is gone
\* and the table holds exactly one row with that normalized name.
C1_ExactlyOneRowPerName ==
    [][UpsertStep /\ AllCallsOk(res'.calls)
          => \A j \in MatchedRows(store, res'.batch) :
                /\ store[j].id \notin RowIds(store')
                /\ CountName(store', Normalize(store[j].name)) = 1]_vars

\* C2: the deletion of the replaced rows is called before the insertion, and
\* when the deletion fails the operation stops there: no insertion is called,
\* the table and the next row identifier are unchanged, and the result is a
\* failure with added = 0, updated = 0 and no processed row identifiers.
C2_DeleteThenInsertOrAbort ==
    [][UpsertStep
          => LET calls == res'.calls
             IN /\ \A d \in CallsOf(calls, "delete"), a \in CallsOf(calls, "add") :
                      d < a
                /\ (\E d \in CallsOf(calls, "delete") : ~calls[d].ok)
                      => /\ CallsOf(calls, "add") = {}
                         /\ store' = store
                         /\ nextId' = nextId
                         /\ ~res'.result.success
                         /\ res'.result.added = 0
                         /\ res'.result.updated = 0
                         /\ res'.summary.grants_added = 0
                         /\ res'.summary.grants_updated = 0
                         /\ res'.summary.processed_row_ids = <<>>]_vars

\* a batch of two candidates whose deletion of the replaced rows failed
C2_Witness ==
    /\ res.op = "scraper"
    /\ \E d \in CallsOf(res.calls, "delete") : ~res.calls[d].ok
    /\ Len(res.batch) = 2

(***************************************************************************)
(* Verification: GrantVerificationAgent.run.                               *)
(***************************************************************************)
\* the row of a table with the given identifier
RowOf(rows, id) == rows[CHOOSE i \in 1..Len(rows) : rows[i].id = id]

\* the entries of a run's row-by-row record that are of the given kinds
DoneAs(done, kinds) == {k \in 1..Len(done) : done[k].what \in kinds}

\* C3: a row that has a grant_final when the run reads it gets no gateway
\* request, is left as it was (neither grant_verified nor grant_final is
\* written) and is counted as skipped, and as nothing else.
C3_FinalizedRowsSkipped ==
    [][res'.op = "verify"
          => /\ \A k \in 1..Len(res'.done) :
                  LET row == RowOf(store, res'.done[k].id)
                  IN row.final # NULL
                        => /\ res'.done[k].calls = 0
                           /\ res'.done[k].what = "skipped_final"
                           /\ RowOf(store', row.id) = row
             /\ res'.summary.skipped
                   = Cardinality({k \in 1..Len(res'.done) :
                                     RowOf(store, res'.done[k].id).final # NULL})
             /\ res'.summary.processed + res'.summary.failed + res'.summary.skipped
                   = Len(res'.done)]_vars

\* a run that skipped a row holding the sentinel and verified another row
C3_Witness ==
    /\ res.op = "verify"
    /\ \E k \in DoneAs(res.done, {"skipped_final"}) :
          RowOf(store, res.done[k].id).final = Sentinel
    /\ DoneAs(res.done, {"processed"}) # {}

\* a verification run directly followed by one of the same row_ids
SecondPass == res.op = "verify" /\ res'.op = "verify" /\ res'.target = res.target

\* what a run did with the row of that identifier
WhatDone(done, id) == {done[k].what : k \in {i \in 1..Len(done) : done[i].id = id}}

\* C4 (as stated): a second verification of the same row_ids issues no
\* gateway request at all, whatever the first one did.
C4_SecondPassNoGatewayCall ==
    [][SecondPass => \A k \in 1..Len(res'.done) : res'.done[k].calls = 0]_vars

\* C4 (amended): a second verification of the same row_ids issues no gateway
\* request for a row the first one finalized or skipped as already final, and
\* only skips it.
C4_SecondPassSkipsFinalized ==
    [][SecondPass
          => \A k \in 1..Len(res'.done) :
                WhatDone(res.done, res'.done[k].id)
                        \cap {"processed", "skipped_final"} # {}
                    => /\ res'.done[k].calls = 0
                       /\ res'.done[k].what = "skipped_final"]_vars

\* a second pass over two rows that skipped one as final and called the
\* gateway again for the other, which has no grant_final
C4_Witness ==
    /\ res.op = "verify" /\ res.repeat
    /\ Len(res.done) = 2
    /\ res.done[1].what = "skipped_final" /\ res.done[1].calls = 0
    /\ res.done[2].what = "failed" /\ res.done[2].calls > 0

(***************************************************************************)
(* Knowledge Sync: sync_pending_grants.                                    *)
(***************************************************************************)
\* C5: a call of sync_pending_grants that directly follows one that returned
\* selects none of the rows that call selected.
C5_SecondSyncSelectsNothingAgain ==
    res.op = "sync" /\ res.repeat
        => SeqToSet(res.selected) \cap SeqToSet(res.first) = {}

\* C6: a row whose status is synced stays in the table as it is, gets no
\* further entry in the knowledge table and is not selected by Sync.
C6_SyncedRowsNeverRevisited ==
    [][\A i \in 1..Len(store) :
          store[i].status = Synced
              => /\ \E j \in 1..Len(store') : store'[j] = store[i]
                 /\ knowledge'[store[i].id] = knowledge[store[i].id]
                 /\ res'.op = "sync"
                       => store[i].id \notin SeqToSet(res'.selected)]_vars

C12_InsertedRowsWereEligible ==
    [][res'.op = "sync"
          => \A id \in DOMAIN knowledge :
                (id \in res'.inserted \/ knowledge'[id] > knowledge[id])
                    => \E i \in 1..Len(store) :
                          /\ store[i].id = id
                          /\ store[i].final # NULL
                          /\ store[i].final # Sentinel
                          /\ store[i].decider = Approved
                          /\ (store[i].status = NULL \/ store[i].status # Synced)]_vars

\* a call that inserted a knowledge entry for a row and marked it synced
C12_Witness ==
    /\ res.op = "sync" /\ ~res.raised
    /\ \E id \in res.inserted :
          /\ knowledge[id] > 0
          /\ RowOf(store, id).status = Synced

(***************************************************************************)
(* Discovery: run_scraper_job and scrape_all_grants.                       *)
(***************************************************************************)
\* C9: a listed name that is in the table when the run starts gets no detail
\* request and is in skipped_existing; a run that lists one name, which is
\* in the table, reports added = 0.
C9_ExistingNamesSkipped ==
    res.op = "scraper"
        => /\ \A i \in 1..Len(res.grant_names) :
                Normalize(res.grant_names[i]) \in res.present
                    => /\ res.grant_names[i] \notin SeqToSet(res.detail_requests)
                       /\ res.grant_names[i] \in SeqToSet(res.summary.skipped_existing)
           /\ Len(res.grant_names) = 1 /\ Normalize(res.grant_names[1]) \in res.present
                 => res.summary.grants_added = 0

(***************************************************************************)
(* The gateway: _make_ai_request_with_retry.                               *)
(***************************************************************************)
\* min(120, 15 * 2^attempt)
Backoff(attempt) == IF 15 * 2^attempt < 120 THEN 15 * 2^attempt ELSE 120

\* C7: the i-th wait is min(120, 15 * 2^(i-1)), so the waits never decrease;
\* no more than max_retries requests are issued; and a call all of whose
\* requests were rate-limited ends after max_retries requests with no
\* result and the error "quota limit reached".
C7_BoundedBackoff ==
    /\ \A i \in 1..Len(gw.waits) : gw.waits[i] = Backoff(i - 1)
    /\ \A i, j \in 1..Len(gw.waits) : i <= j => gw.waits[i] <= gw.waits[j]
    /\ gw.requests <= gw.max_retries
    /\ Len(gw.waits) <= gw.max_retries
    /\ gw.pc = "done" /\ Len(gw.waits) = gw.requests
          => /\ gw.requests = gw.max_retries
             /\ gw.result = NULL
             /\ gw.errors # <<>>
             /\ gw.errors[Len(gw.errors)] = "quota limit reached"

\* a call with max_retries = 5 that gave up after five rate-limited requests
C7_Witness ==
    /\ gw.pc = "done"
    /\ gw.max_retries = 5
    /\ gw.waits = <<15, 30, 60, 120, 120>>
    /\ gw.requests = 5

\* the exception is no rate-limit signal
NoRateLimit(e) == e # {} /\ "quota" \notin e /\ "429" \notin e

\* C8: a request that fails with anything but a rate-limit signal ends the
\* call at once: that request is the last one, no wait follows it, the
\* caller gets no result and the error is recorded.
C8_OtherFailureEndsCall ==
    NoRateLimit(gw.last)
        => /\ gw.pc = "done"
           /\ gw.requests = Len(gw.waits) + 1
           /\ gw.result = NULL
           /\ gw.errors # <<>>
           /\ gw.errors[Len(gw.errors)] = "request error"

\* a call whose second request failed with another error than a rate limit
C8_Witness ==
    /\ gw.pc = "done"
    /\ NoRateLimit(gw.last)
    /\ gw.requests = 2
    /\ gw.max_retries > 2

(***************************************************************************)
(* The schema validator: _validate_exact_structure.                        *)
(***************************************************************************)
\* the place holds a JSON object that has every key required at that place
HasRequiredKeys(grant, p) ==
    grant[p].kind = "dict" /\ required_structure[p] \subseteq grant[p].keys

\* no required key and no sourceUrl is lacking: every place of the required
\* structure is an object with its keys, and so is the item of files when
\* files is an array that has one
LacksNoKey(grant) ==
    /\ \A p \in Places \ {"files", "file"} : HasRequiredKeys(grant, p)
    /\ grant.files.kind = "list" /\ grant.file.kind # "absent"
          => HasRequiredKeys(grant, "file")

\* the full fixed nested shape: nothing is lacking and files is an array
FullShape(grant) == LacksNoKey(grant) /\ grant.files.kind = "list"

\* C13: the validator accepts every record that has the full nested shape
\* and rejects every record that lacks a required key or a sourceUrl.
C13_ValidatorAcceptsExactlyFullShape ==
    res.op = "validated"
        => /\ FullShape(res.grant) => res.accepted
           /\ ~LacksNoKey(res.grant) => ~res.accepted

\* C14: the entries Discovery hands to Upsert are the answers the validator
\* accepted, in order (or none, when building the entries raised); a request
\* whose answer did not parse or did not pass the validator is named in
\* failed_grants and not counted as scraped; and every row Upsert inserts
\* carries the name of one of the entries it was handed.
Accepted(answer) ==
    answer.kind = "parsed" /\ validate_exact_structure(answer.grant)

NotAccepted(answer) == ~Accepted(answer)

AnswerNames(answers) == [i \in 1..Len(answers) |-> [name |-> answers[i].name]]

RequestsWhere(requests, answers, Test(_)) ==
    LET RECURSIVE pick(_)
        pick(i) == IF i > Len(requests) THEN <<>>
                   ELSE (IF Test(answers[i]) THEN <<requests[i]>> ELSE <<>>)
                            \o pick(i + 1)
    IN pick(1)

C14_OnlyValidatedRecordsPersisted ==
    [][res'.op = "scraper"
          => /\ Len(res'.answers) = Len(res'.detail_requests)
             /\ res'.batch \in {<<>>, AnswerNames(SelectSeq(res'.answers, Accepted))}
             /\ res'.summary.failed_grants =
                    RequestsWhere(res'.detail_requests, res'.answers, NotAccepted)
             /\ res'.summary.grants_scraped =
                    Len(SelectSeq(res'.answers, Accepted))
             /\ \A j \in 1..Len(store') :
                   (\A i \in 1..Len(store) : store[i].id # store'[j].id)
                       => \E k \in 1..Len(res'.batch) :
                             res'.batch[k].name = store'[j].name]_vars

\* a run with two detail requests: the answer to one fails the validator and
\* the request is in failed_grants, the other answer is inserted as a row
C14_Witness ==
    /\ res.op = "scraper"
    /\ Len(res.answers) = 2
    /\ \E i \in 1..2 :
          /\ res.answers[i].kind = "parsed"
          /\ ~validate_exact_structure(res.answers[i].grant)
          /\ res.detail_requests[i] \in SeqToSet(res.summary.failed_grants)
    /\ Len(res.batch) = 1
    /\ res.result.added = 1
    /\ \E j \in 1..Len(store) :
          /\ store[j].id \in SeqToSet(res.summary.processed_row_ids)
          /\ store[j].name = res.batch[1].name

(***************************************************************************)
(* Verification: _produce_final_payload and _parse_model_output.           *)
(***************************************************************************)
\* C20: for every text the model returns, _produce_final_payload returns a
\* value and does not raise: a JSON object of the required shape is accepted
\* when it is the whole text and when it is embedded in prose, with or
\* without the defects the repair removes, and a text in which nothing
\* parses gives the sentinel.
C20_FinalPayloadNeverRaises ==
    res.op = "final"
        => /\ ~res.raised
           /\ res.value \in {FinalJson, Sentinel}
           /\ res.text.form \in {"json", "embedded", "repairable"}
                 /\ res.text.json.type = "object"
                 /\ FullShape(res.text.json.grant)
                 => res.value = FinalJson
           /\ res.text.form \in {"sentinel", "prose"} => res.value = Sentinel

\* C19: the verified payload and the final payload are written by two
\* separate updates, and for a row whose update of grant_verified failed the
\* update of grant_final is still attempted.
C19_SecondUpdateAttemptedAfterFirstFails ==
    res.op = "verify"
        => \A i \in 1..Len(res.done) :
              /\ res.done[i].what = "processed"
                    => res.done[i].updates = <<"grant_verified", "grant_final">>
              /\ res.done[i].outcome = "verified_write_fail"
                    => "grant_final" \in SeqToSet(res.done[i].updates)

(***************************************************************************)
(* The orchestrator: _run_pipeline.                                        *)
(***************************************************************************)
\* C15: a run of _run_pipeline whose credentials are all set completes and
\* returns its summary: no stage raises into the orchestrator, and the run
\* does not end with an exception.
C15_RunReturnsSummary ==
    (env.gemini /\ env.openai /\ env.jamai)
        => /\ pc # "crashed"
           /\ res.op = "verify" => ~res.raised

\* the stages of a run that come after the scraper: what they leave in res
LaterStages == {"verify", "verifier_not_configured", "poll_round", "poll", "sync"}

\* C16: once a stage of a run has reported missing configuration, no later
\* stage of that run (Verification, Decision Poller, Knowledge Sync) is
\* executed.
C16_NoStageAfterMissingConfiguration ==
    [][run.reported # {} => res'.op \notin LaterStages]_vars

\* C17: in every pipeline run the Knowledge Sync stage is eventually
\* attempted, whatever the earlier stages did.
C17_SyncEventuallyAttempted == <>(res.op = "sync")

\* the unresolved rows of a run: those the poller returned None for
Unresolved == {id \in DOMAIN run.decider_results : run.decider_results[id] = NULL}

\* C11: when the poller returns, a row of the run that has a final payload
\* and an empty decision is reported with the value None; and Knowledge Sync
\* in the same run neither selects nor inserts a row that was reported
\* unresolved and whose decision is still empty.
C11_UnresolvedRowsNotSynced ==
    [][/\ res'.op = "poll"
          => \A i \in 1..Len(store) :
                /\ store[i].id \in DOMAIN res'.decider_results
                /\ store[i].final # NULL
                /\ store[i].decider = NULL
                => /\ res'.decider_results[store[i].id] = NULL
                   /\ store[i].id \in res'.pending
       /\ res'.op = "sync"
          => \A i \in 1..Len(store) :
                /\ store[i].id \in Unresolved
                /\ store[i].final # NULL
                /\ store[i].decider = NULL
                => /\ store[i].id \notin SeqToSet(res'.selected)
                   /\ store[i].id \notin res'.inserted
                   /\ knowledge'[store[i].id] = knowledge[store[i].id]
                   /\ store'[i] = store[i]]_vars

\* a run in which Verification stored a JSON final payload for the new row,
\* the poller gave up with the decision still empty, and Sync then
\* processed another row but left this one out
C11_Witness ==
    /\ res.op = "sync" /\ ~res.raised
    /\ res.summary.synced = 1
    /\ \E i \in 1..Len(store) :
          /\ store[i].id \in Unresolved
          /\ store[i].final = FinalJson
          /\ store[i].decider = NULL
          /\ store[i].status = NULL
          /\ store[i].id \notin SeqToSet(res.selected)
          /\ knowledge[store[i].id] = 0

\* C18: once a stop has been requested, Discovery lets the detail request
\* that is under way finish and starts no further candidate.
C18_NoCandidateStartedAfterStop ==
    [][env.shutdown_requested /\ pc = "scraping" /\ pc' = "scraping"
          => run'.scrape.current \in {run.scrape.current, <<>>}]_vars

\* C21: every value _produce_final_payload returns for the grant_final cell
\* is the sentinel, or the JSON of an object that satisfies the fixed
\* candidate schema: no place of it lacks a required key or a sourceUrl.
C21_FinalIsSentinelOrSchemaObject ==
    res.op = "final" /\ ~res.raised
        => \/ res.value = Sentinel
           \/ /\ res.value = FinalJson
              /\ res.text.json.type = "object"
              /\ LacksNoKey(res.text.json.grant)

(***************************************************************************)
(* Verification: the generation requests of _call_openai_chat.             *)
(***************************************************************************)
\* the rows a verification run has reported as failed so far
FailedRows == IF pc = "verifying" THEN run.verifying.failed
              ELSE IF res.op = "verified" THEN res.failed ELSE <<>>

\* C22: a row is reported as failed for a rate-limited generation request
\* only after that request was retried with backoff: more than one request
\* was issued, with the waits min(120, 15 * 2^attempt) between them.
C22_RateLimitedChatRetried ==
    \A k \in 1..Len(FailedRows) :
        is_rate_limited(FailedRows[k].error)
            => /\ FailedRows[k].requests > 1
               /\ FailedRows[k].waits # <<>>
               /\ \A i \in 1..Len(FailedRows[k].waits) :
                     FailedRows[k].waits[i] = Backoff(i - 1)

(***************************************************************************)
(* Upsert: the snapshot read of add_or_update_grant_entries.               *)
(***************************************************************************)
\* C23: when the listing of the table fails at the start of Upsert, the
\* stage aborts: no deletion and no insertion is called, the table and the
\* next row identifier are unchanged, and the result is a failure.
C23_ReadFailureAbortsUpsert ==
    [][UpsertStep /\ ~res'.calls[1].ok
          => /\ res'.calls[1].call = "list"
             /\ CallsOf(res'.calls, "delete") = {}
             /\ CallsOf(res'.calls, "add") = {}
             /\ store' = store
             /\ nextId' = nextId
             /\ ~res'.result.success
             /\ res'.summary.grants_added = 0]_vars

(***************************************************************************)
(* Knowledge Sync: the loop of sync_pending_grants and its batch update.   *)
(***************************************************************************)
\* the insertions a call of sync_pending_grants attempted for a row
AttemptsFor(attempts, id) == {k \in 1..Len(attempts) : attempts[k].id = id}

\* C24: a row is marked synced only if its insertion into the knowledge
\* table succeeded in that call (and every such row is); a row whose
\* insertion failed is marked failed:<reason> and gets no knowledge entry;
\* and the rows selected after it are handled all the same.  The marks are
\* in the table once the batch update succeeded.
C24_SyncedOnlyAfterInsertion ==
    [][res'.op = "sync"
          => /\ \A id \in DOMAIN res'.updates :
                   /\ res'.updates[id] = Synced
                         <=> \E k \in AttemptsFor(res'.attempts, id) :
                                res'.attempts[k].ok
                   /\ res'.updates[id] = Synced
                         => knowledge'[id] = knowledge[id] + 1
                   /\ ~res'.raised
                         => RowOf(store', id).status = res'.updates[id]
             /\ \A k \in 1..Len(res'.attempts) :
                   ~res'.attempts[k].ok
                       => /\ res'.updates[res'.attempts[k].id] = Failed
                          /\ knowledge'[res'.attempts[k].id]
                                = knowledge[res'.attempts[k].id]
                          /\ res'.handled = res'.selected]_vars

\* a call that selected two rows: the insertion failed for the first, which
\* is marked failed, and succeeded for the second, which is marked synced
C24_Witness ==
    /\ res.op = "sync" /\ ~res.raised
    /\ Len(res.selected) = 2
    /\ res.attempts = <<[id |-> res.selected[1], ok |-> FALSE],
                        [id |-> res.selected[2], ok |-> TRUE]>>
    /\ RowOf(store, res.selected[1]).status = Failed
    /\ RowOf(store, res.selected[2]).status = Synced
    /\ knowledge[res.selected[1]] = 0
    /\ knowledge[res.selected[2]] = 1

\* C25: the status marks of a batch are written by one update call, made
\* after the last row; when that call fails, sync_pending_grants does not
\* raise: it returns its summary, which counts the rows it inserted, and the
\* knowledge entries it inserted remain.
C25_UpdateFailureNotRaised ==
    [][res'.op = "sync"
          => /\ Len(res'.update_calls) <= 1
             /\ \A c \in 1..Len(res'.update_calls) :
                   /\ res'.update_calls[c].ids = DOMAIN res'.updates
                   /\ res'.handled = res'.selected
                   /\ ~res'.update_calls[c].ok
                         => /\ ~res'.raised
                            /\ res'.summary.synced = Cardinality(res'.inserted)
                            /\ \A id \in res'.inserted :
                                  knowledge'[id] = knowledge[id] + 1]_vars

\* C26: every entry Sync inserts into the knowledge table has a name and a
\* description that are not empty; a selected row whose final payload maps
\* to no name or no description is marked failed:<reason> and no insertion
\* is attempted for it.
C26_InsertedEntriesHaveNameAndDescription ==
    [][res'.op = "sync"
          => /\ \A k \in 1..Len(res'.entries) :
                   /\ res'.entries[k].payload.grant_name # <<>>
                   /\ res'.entries[k].payload.grant_description # <<>>
             /\ \A id \in DOMAIN knowledge :
                   knowledge'[id] > knowledge[id]
                       => \E k \in 1..Len(res'.entries) : res'.entries[k].id = id
             /\ \A k \in 1..Len(res'.handled) :
                   LET row == RowOf(store, res'.handled[k])
                       mapped == map_grant_to_knowledge_row(final_data(row.final))
                   IN /\ row.final # Sentinel
                      /\ final_data(row.final).type = "dict"
                      /\ ~mapped.raised
                      /\ (mapped.grant_name = <<>> \/ mapped.grant_description = <<>>)
                      => /\ AttemptsFor(res'.attempts, row.id) = {}
                         /\ knowledge'[row.id] = knowledge[row.id]
                         /\ ~res'.raised
                               => /\ res'.updates[row.id] = FailedPayload
                                  /\ RowOf(store', row.id).status = FailedPayload]_vars

\* a call that selected a row whose payload has no grantName and a row with
\* a complete payload: the first is marked failed and has no knowledge
\* entry, the second was inserted with its name and description
C26_Witness ==
    /\ res.op = "sync" /\ ~res.raised
    /\ Len(res.selected) = 2
    /\ RowOf(store, res.selected[1]).final = FinalNoName
    /\ RowOf(store, res.selected[1]).status = FailedPayload
    /\ knowledge[res.selected[1]] = 0
    /\ res.entries = <<[id |-> res.selected[2],
                        payload |-> [grant_name |-> GrantText,
                                     grant_description |-> GrantText]]>>
    /\ knowledge[res.selected[2]] = 1

(***************************************************************************)
(* Discovery: the list of candidate names.                                 *)
(***************************************************************************)
\* C27: whatever list the generator returns, no two of the names a detail
\* request is issued for are equal after trimming and lower-casing.
C27_RequestedNamesDistinct ==
    res.op = "scraper"
        => \A i, j \in 1..Len(res.detail_requests) :
              i < j => Normalize(res.detail_requests[i])
                           # Normalize(res.detail_requests[j])

(***************************************************************************)
(* The Decision Poller: _wait_for_grant_decider.                           *)
(***************************************************************************)
\* the elements of a sequence that are in a set, in the order of the sequence
Restrict(s, S) ==
    LET RECURSIVE pick(_)
        pick(i) == IF i > Len(s) THEN <<>>
                   ELSE (IF s[i] \in S THEN <<s[i]>> ELSE <<>>) \o pick(i + 1)
    IN pick(1)

\* the identifiers of a verification run's row-by-row record
DoneIds(done) == [k \in 1..Len(done) |-> done[k].id]

\* C28: within a stage the items are handled in the order the stage was
\* given them: the detail requests of Discovery follow the name list, the
\* rows of Verification follow row_ids, every round of the Decision Poller
\* polls the pending rows in the order of row_ids, and Sync handles the rows
\* in the order it selected them.
C28_ItemsHandledInGivenOrder ==
    /\ res.op = "scraper"
          => res.detail_requests
                 = Restrict(res.grant_names, SeqToSet(res.detail_requests))
    /\ res.op = "verify" /\ res.target # <<>>
          => DoneIds(res.done) = Restrict(res.target, SeqToSet(DoneIds(res.done)))
    /\ res.op = "wait_round"
          => res.polled = Restrict(res.given, SeqToSet(res.polled))
    /\ res.op = "sync"
          => res.handled = SubSeq(res.selected, 1, Len(res.handled))

\* C29: once a stop has been requested while rows are pending, the poller
\* starts no further polling round: its next step is to return, and it
\* reports every row that is still pending as unresolved (None).
C29_NoPollingRoundAfterStop ==
    [][/\ env.shutdown_requested /\ pc = "waiting" => res'.op # "wait_round"
       /\ res'.op = "wait_round" => ~res'.stop_requested
       /\ res'.op = "wait"
             => /\ DOMAIN res'.decider_results = SeqToSet(res'.given)
                /\ \A id \in res'.pending : res'.decider_results[id] = NULL]_vars

\* the poller returned before its deadline because a stop was requested
\* after a first round, with a row still pending and reported as None
C29_Witness ==
    /\ res.op = "wait"
    /\ res.stop_requested
    /\ res.pending # {}
    /\ 0 < res.clock /\ res.clock < res.deadline
    /\ \A id \in res.pending : res.decider_results[id] = NULL

\* C30: a call of _wait_for_grant_decider returns, also when every fetch
\* fails in every round; no polling round starts at or after the deadline,
\* nor once every given row has a decision; and when it returns with rows
\* pending, the deadline has passed or a stop was requested.
C30_PollerTerminates ==
    /\ (pc = "waiting") ~> (pc = "idle")
    /\ [][pc = "waiting" /\ run' # run
             => /\ res'.op \in {"wait_round", "wait"}
                /\ res'.op = "wait_round"
                      => /\ res'.started_at < res'.deadline
                         /\ run.pending # {}
                         /\ run'.pending = {} => res'.slept = 0
                /\ run.pending = {} => res'.op = "wait"
                /\ res'.op = "wait" /\ res'.pending # {}
                      => res'.clock >= res'.deadline \/ res'.stop_requested]_vars

\* the poller returned at its deadline after rounds in which every fetch
\* failed, with every given row reported as None
C30_Witness ==
    /\ res.op = "wait"
    /\ ~res.stop_requested
    /\ res.fetched = 0
    /\ res.deadline = MaxPollRounds
    /\ res.clock = res.deadline
    /\ res.pending = SeqToSet(res.given)

(***************************************************************************)
(* Catch-up verification: run_grant_verifier() with no row_ids, run again  *)
(* and again on a table in which finalized rows come before new ones, with *)
(* a gateway that answers and a store that takes every update.             *)
(***************************************************************************)
\* the most new rows a table has after its finalized rows
MaxFreshRows == 2

\* the name of the i-th grant: "a", "aa", "aaa", ...
GrantNamed(i) == [k \in 1..i |-> "a"]

\* the tables of k finalized rows followed by j new rows
CatchUpTables ==
    {[i \in 1..(k + j) |->
         IF i <= k
         THEN [NewRow(i, [name |-> GrantNamed(i)]) EXCEPT !.verified = TRUE,
                                                         !.final = FinalJson]
         ELSE NewRow(i, [name |-> GrantNamed(i)])] :
        k \in 0..(DEFAULT_LIMIT + 1), j \in 0..MaxFreshRows}

\* GrantVerificationAgent.run(row_ids=None, limit=None): every request is
\* answered and every update is written
CatchUpRun ==
    /\ pc = "idle"
    /\ LET rows == list_target_rows(<<>>, [i \in {1} |-> TRUE], DEFAULT_LIMIT)
       IN \E outcomes \in [rows_to_verify(rows) -> {"final_json", "final_sentinel"}] :
             LET out == verifier_run(rows, outcomes)
             IN /\ store' = out.store
                /\ res' = verify_result(<<>>, out)
    /\ UNCHANGED <<knowledge, nextId, pc, run, gw, env>>

InitCatchUp == InitWith(CatchUpTables)

NextCatchUp == CatchUpRun

SpecCatchUp == InitCatchUp /\ [][NextCatchUp]_vars

\* the script is run again as long as it is started
FairSpecCatchUp == SpecCatchUp /\ WF_vars(CatchUpRun)

\* C31: under repeated catch-up runs with a working gateway and store, every
\* row of the table that lacks a final payload eventually gets one, however
\* many finalized rows precede it in the listing.
C31_CatchUpReachesEveryRow ==
    \A i \in 1..(DEFAULT_LIMIT + 1 + MaxFreshRows) :
        (i <= Len(store) /\ store[i].final = NULL)
            ~> (i <= Len(store) /\ store[i].final # NULL)

(***************************************************************************)
(* Upsert: the row identifiers threaded to Verification.                   *)
(***************************************************************************)
\* the identifiers of the rows the table holds after the step and did not
\* hold before it
InsertedIds == RowIds(store') \ RowIds(store)

\* C32: the row identifiers Upsert returns, and the orchestrator threads to
\* Verification, are exactly the identifiers of the rows that Upsert
\* inserted: when it reports added = n > 0, n identifiers are returned.
C32_AddedRowsAreThreaded ==
    [][UpsertStep
          => /\ SeqToSet(res'.result.processed_ids) = InsertedIds
             /\ run'.row_ids = res'.result.processed_ids
             /\ res'.result.added > 0
                   => Len(res'.result.processed_ids) = res'.result.added]_vars

\* the identifiers that are returned are identifiers of inserted rows, and
\* they are the ones handed to Verification
C32_ReturnedIdsWereInserted ==
    [][UpsertStep
          => /\ SeqToSet(res'.result.processed_ids) \subseteq InsertedIds
             /\ run'.row_ids = res'.result.processed_ids]_vars

(***************************************************************************)
(* run_scraper_job while another writer of the table adds a row between    *)
(* the read of get_existing_grant_names and add_or_update_grant_entries.   *)
(***************************************************************************)
\* Another writer of the table adds a row after Discovery has read the
\* names and before Upsert reads the table.
ExternalInsert ==
    /\ pc = "upsert"
    /\ nextId + Len(run.scrape.grant_entries) <= MaxId
    /\ \E name \in RawNames :
          store' = Append(store, NewRow(nextId, [name |-> name]))
    /\ nextId' = nextId + 1
    /\ res' = [op |-> "external_insert"]
    /\ UNCHANGED <<knowledge, pc, run, gw, env>>

InitSnapshot == InitWith(Tables(RawNames, {Fresh}))

NextSnapshot ==
    \/ ScraperDiscover
    \/ ExternalInsert
    \/ Upsert
    \/ NoUpsert

SpecSnapshot == InitSnapshot /\ [][NextSnapshot]_vars

\* the candidates of the batch have pairwise different normalized names
DistinctBatch(batch) ==
    \A i, j \in 1..Len(batch) :
        i # j => Normalize(batch[i].name) # Normalize(batch[j].name)

C34_OnlyMatchedRowsDeleted ==
    [][UpsertStep
          => LET kept == {j \in 1..Len(store) : store[j].id \in RowIds(store')}
             IN /\ \A j \in 1..Len(store) :
                      j \notin MatchedRows(store, res'.batch) => j \in kept
                /\ \A j \in kept : RowOf(store', store[j].id) = store[j]
                /\ SelectSeq2(store', RowIds(store)) = SelectSeq2(store, RowIds(store'))
                /\ \A k \in 1..Len(store') :
                      store'[k].id \notin RowIds(store) => store'[k].id >= nextId]_vars

\* a replacement in a table that also holds a row no candidate matches
C34_Witness ==
    /\ res.op = "scraper"
    /\ AllCallsOk(res.calls)
    /\ CallsOf(res.calls, "delete") # {}
    /\ \E j \in 1..Len(store) :
          /\ store[j].id <= MaxInitRows
          /\ \A i \in 1..Len(res.batch) :
                Normalize(res.batch[i].name) # Normalize(store[j].name)

\* C35: whenever add_or_update_grant_entries deletes a row to replace it,
\* the table holds a row with the same normalized name afterwards, also when
\* the insertion that follows the deletion fails; and a result with
\* updated = k > 0 means that the k replacement rows were inserted.
C35_ReplacedGrantNeverLost ==
    [][UpsertStep
          => /\ \A j \in 1..Len(store) :
                   store[j].id \notin RowIds(store')
                       => CountName(store', Normalize(store[j].name)) >= 1
             /\ res'.result.updated > 0
                   => Cardinality(RowIds(store') \ RowIds(store))
                          >= res'.result.updated]_vars

(***************************************************************************)
(* sync_pending_grants, request by request, started by the daily pipeline  *)
(* worker, by the daily sync worker and by POST /jamai/sync-grants, each    *)
(* in a process or thread of its own.  run.syncing holds, for each of      *)
(* them, the rows it listed and has not handled yet and what its loop has  *)
(* collected.                                                              *)
(***************************************************************************)
SyncCallers == {"pipeline worker", "sync worker", "route"}

\* no call of sync_pending_grants under way
NoSync ==
    [pc |-> "idle", todo |-> <<>>,
     acc |-> [updates |-> <<>>, handled |-> <<>>, attempts |-> <<>>,
              entries |-> <<>>, raised |-> FALSE]]

\* lines 97-108: a call by one of the callers starts and lists the pending
\* rows; limits are the limits it can be given, listings whether the
\* listing can succeed and fail
SyncBeginBy(callers, limits, listings) ==
    /\ pc = "syncing"
    /\ \E c \in callers, limit \in limits, listOk \in listings :
          /\ run.syncing[c].pc = "idle"
          /\ run' = [run EXCEPT !.syncing[c] =
                        IF listOk
                        THEN [NoSync EXCEPT
                                 !.pc = "listed",
                                 !.todo = list_pending_rows(sync_limit(limit))]
                        ELSE NoSync]
          /\ res' = [op |-> "sync_begin", caller |-> c, listed |-> listOk]
    /\ UNCHANGED <<store, knowledge, nextId, pc, gw, env>>

SyncBegin == SyncBeginBy(SyncCallers, {DEFAULT_LIMIT}, BOOLEAN)

\* lines 110-137 for the row in hand, whose payload is `prepared`: the call
\* ends when preparing it raised, else the row is inserted when it has a
\* payload and its mark is collected
SyncRowOf(c, row, prepared, insertions) ==
    IF prepared.kind = "raise"
    THEN /\ run' = [run EXCEPT !.syncing[c] = NoSync]
         /\ res' = [op |-> "sync_raise", caller |-> c, id |-> row.id]
         /\ UNCHANGED knowledge
    ELSE \E ok \in IF prepared.kind = "payload" THEN insertions ELSE {FALSE} :
            /\ ok => knowledge[row.id] < MaxInserts
            /\ knowledge' = IF ok THEN [knowledge EXCEPT ![row.id] = @ + 1]
                            ELSE knowledge
            /\ run' = [run EXCEPT
                          !.syncing[c].todo = Tail(@),
                          !.syncing[c].acc =
                              sync_row(row, prepared, [id \in {row.id} |-> ok], @)]
            /\ res' = [op |-> "sync_row", caller |-> c, id |-> row.id,
                       inserted |-> ok]

\* one pass of the loop of lines 110-137 in a call of one of the callers;
\* insertions says whether _insert_knowledge_row can succeed and fail
SyncRowBy(callers, insertions) ==
    /\ pc = "syncing"
    /\ \E c \in callers :
          /\ run.syncing[c].pc = "listed"
          /\ run.syncing[c].todo # <<>>
          /\ SyncRowOf(c, Head(run.syncing[c].todo),
                       prepare_knowledge_payload(Head(run.syncing[c].todo)),
                       insertions)
    /\ UNCHANGED <<store, nextId, pc, gw, env>>

SyncRow == SyncRowBy(SyncCallers, BOOLEAN)

\* lines 139-142: the batch update of the marks, and the call returns;
\* updates says whether _update_action_rows can succeed and fail
SyncFinishBy(callers, updates) ==
    /\ pc = "syncing"
    /\ \E c \in callers, updateOk \in updates :
          /\ run.syncing[c].pc = "listed"
          /\ run.syncing[c].todo = <<>>
          /\ store' = IF DOMAIN run.syncing[c].acc.updates # {} /\ updateOk
                      THEN update_action_rows(store, run.syncing[c].acc.updates)
                      ELSE store
          /\ run' = [run EXCEPT !.syncing[c] = NoSync]
          /\ res' = [op |-> "sync_finish", caller |-> c,
                     updated |-> DOMAIN run.syncing[c].acc.updates # {} /\ updateOk]
    /\ UNCHANGED <<knowledge, nextId, pc, gw, env>>

SyncFinish == SyncFinishBy(SyncCallers, BOOLEAN)

\* the three callers are started
StartCallers ==
    /\ pc = "idle"
    /\ pc' = "syncing"
    /\ run' = [NoRun EXCEPT !.syncing = [c \in SyncCallers |-> NoSync]]
    /\ res' = [op |-> "start_callers"]
    /\ UNCHANGED <<store, knowledge, nextId, gw, env>>

InitInterleave ==
    InitWith(Tables({<<"A">>},
                    {ApprovedRow, ApprovedSentinel,
                     [ApprovedRow EXCEPT !.final = FinalStringDescription]}))

NextInterleave ==
    \/ StartCallers
    \/ SyncBegin
    \/ SyncRow
    \/ SyncFinish

SpecInterleave == InitInterleave /\ [][NextInterleave]_vars

\* the rows a call under way has inserted into the knowledge table
EntryIds(c) ==
    IF pc = "syncing"
    THEN {run.syncing[c].acc.entries[i].id :
              i \in 1..Len(run.syncing[c].acc.entries)}
    ELSE {}

\* C36: calls of sync_pending_grants started by the pipeline worker, the
\* sync worker and the route do not interleave on the same rows: no row is
\* inserted into the knowledge table by two calls that are under way at the
\* same time.
C36_NoRowInsertedByTwoCalls ==
    \A c1, c2 \in SyncCallers :
        c1 # c2 => EntryIds(c1) \cap EntryIds(c2) = {}

(***************************************************************************)
(* The daily sync worker started with --limit 1, run after run, with a     *)
(* table store and a knowledge store that take every request.              *)
(***************************************************************************)
\* _run_sync(limit=1), request by request: the listing, the insertions and
\* the batch update all succeed
LimitedBegin == SyncBeginBy({"sync worker"}, {1}, {TRUE})
LimitedRow == SyncRowBy({"sync worker"}, {TRUE})
LimitedFinish == SyncFinishBy({"sync worker"}, {TRUE})

\* run_worker of grant_sync_worker.py: one run after another
LimitedSync ==
    \/ StartCallers
    \/ LimitedBegin
    \/ LimitedRow
    \/ LimitedFinish

InitLimited ==
    InitWith(Tables({<<"A">>, <<"b">>},
                    {Fresh, ApprovedRow, ApprovedSentinel, SyncedRow,
                     [ApprovedRow EXCEPT !.final = FinalEmptyObject]}))

NextLimited == LimitedSync

SpecLimited == InitLimited /\ [][NextLimited]_vars

\* the worker runs the sync again every day
FairSpecLimited == SpecLimited /\ WF_vars(LimitedSync)

\* C37: under repeated runs of sync_pending_grants with working stores,
\* every approved row with a valid final payload that is not yet synced is
\* eventually inserted and marked synced; rows marked skipped or failed do
\* not fill the limit of every run.
C37_ValidRowEventuallySynced ==
    \A i \in 1..MaxInitRows :
        (/\ i <= Len(store)
         /\ store[i].decider = Approved
         /\ store[i].final = FinalJson
         /\ store[i].status # Synced)
            ~> (i <= Len(store) /\ store[i].status = Synced /\ knowledge[i] > 0)

(***************************************************************************)
(* Discovery: the run statistics of scrape_all_grants.                     *)
(***************************************************************************)
\* the names listed are the skipped ones, the processed ones and the failed
\* ones, each counted once
C38_NamesAccountedFor ==
    res.op = "scraper" /\ res.detail_requests # <<>>
        => /\ res.summary.grants_requested
                  = Len(res.summary.skipped_existing) + res.summary.grants_scraped
                        + Len(res.summary.failed_grants)
           /\ Len(res.detail_requests)
                  = res.summary.grants_scraped + Len(res.summary.failed_grants)

\* C38: after a call of scrape_all_grants that reached the loop over the
\* names, requested = skipped + scraped + failed, and the number of grant
\* entries returned is the number of processed names.
C38_ScrapeAccounting ==
    res.op = "scraper" /\ res.detail_requests # <<>>
        => /\ res.summary.grants_requested
                  = Len(res.summary.skipped_existing) + res.summary.grants_scraped
                        + Len(res.summary.failed_grants)
           /\ Len(res.batch) = res.summary.grants_scraped

(***************************************************************************)
(* Knowledge Sync: the summary sync_pending_grants returns.                *)
(***************************************************************************)
\* C39: whenever sync_pending_grants returns a summary, processed = synced +
\* failed + skipped, and every selected row received exactly one status mark
\* (synced, skipped or failed) in the one batch update, which the table
\* holds afterwards; no selected row is left without a mark.
C39_EverySelectedRowMarked ==
    res.op = "sync" /\ ~res.raised
        => /\ res.summary.processed = Len(res.selected)
           /\ res.summary.processed
                  = res.summary.synced + res.summary.failed + res.summary.skipped
           /\ DOMAIN res.updates = SeqToSet(res.selected)
           /\ \A id \in DOMAIN res.updates :
                 /\ res.updates[id] \in {Synced, Skipped, Failed, FailedPayload}
                 /\ RowOf(store, id).status = res.updates[id]
           /\ res.selected # <<>>
                 => res.update_calls = <<[ids |-> SeqToSet(res.selected), ok |-> TRUE]>>
           /\ res.selected = <<>> => res.update_calls = <<>>

\* a call that selected two rows, inserted one and could not prepare the
\* payload of the other
C39_Witness ==
    /\ res.op = "sync"
    /\ ~res.raised
    /\ res.summary.processed = 2
    /\ res.summary.synced = 1
    /\ res.summary.failed = 1
    /\ \E id \in DOMAIN res.updates : res.updates[id] = FailedPayload

(***************************************************************************)
(* run_worker without --once, statement by statement, while a stop signal  *)
(* can arrive.  pc = "idle" is the test of the while loop (line 227),       *)
(* "sleep" the loop of _sleep_until_next_run, "check" the test of line 229  *)
(* and "call" the call of line 232; the steps of _run_pipeline follow and   *)
(* lead back to "idle".  Time is counted in chunks of 60 seconds.           *)
(***************************************************************************)
\* the longest wait for the next run, in chunks of 60 seconds
MaxChunks == 2

\* run_worker, line 227, and _sleep_until_next_run, lines 67-73: the loop
\* ends when a stop was requested; otherwise the wait for the next run begins
WorkerLoop ==
    /\ pc = "idle"
    /\ IF env.shutdown_requested
       THEN /\ pc' = "stopped"
            /\ run' = NoRun
       ELSE /\ pc' = "sleep"
            /\ \E wait_seconds \in 1..MaxChunks :
                  run' = [NoRun EXCEPT !.wait_seconds = wait_seconds]
    /\ res' = [op |-> "loop"]
    /\ UNCHANGED <<store, knowledge, nextId, gw, env>>

\* _sleep_until_next_run, lines 74-77: one chunk of at most 60 seconds
SleepChunk ==
    /\ pc = "sleep"
    /\ run.slept < run.wait_seconds /\ ~env.shutdown_requested
    /\ run' = [run EXCEPT !.slept = @ + 1]
    /\ res' = [op |-> "sleep"]
    /\ UNCHANGED <<store, knowledge, nextId, pc, gw, env>>

\* _sleep_until_next_run, line 74: the time has come or a stop was requested
SleepEnd ==
    /\ pc = "sleep"
    /\ ~(run.slept < run.wait_seconds /\ ~env.shutdown_requested)
    /\ pc' = "check"
    /\ res' = [op |-> "wake", early |-> run.slept < run.wait_seconds]
    /\ UNCHANGED <<store, knowledge, nextId, run, gw, env>>

\* run_worker, lines 229-231: break when a stop was requested, and go on to
\* the call of _run_pipeline otherwise
WorkerCheck ==
    /\ pc = "check"
    /\ pc' = IF env.shutdown_requested THEN "stopped" ELSE "call"
    /\ res' = [op |-> "check"]
    /\ UNCHANGED <<store, knowledge, nextId, run, gw, env>>

\* run_worker, line 232: _run_pipeline is called and run_scraper_job runs
WorkerRun == DiscoverAt("call", {1})

\* the statements of run_worker and of the run it starts
Worker ==
    \/ WorkerLoop
    \/ SleepChunk
    \/ SleepEnd
    \/ WorkerCheck
    \/ WorkerRun
    \/ Upsert
    \/ NoUpsert
    \/ Verify
    \/ NoVerify
    \/ PollRound
    \/ PollEnd
    \/ Sync

NextWorker ==
    \/ Worker
    \/ HandleSignal

SpecWorker == Init /\ [][NextWorker]_vars

\* C40: in the daily worker loop, once a shutdown signal has been received
\* no new pipeline run is started: a signal arriving at any point between
\* the end of the sleep and the start of _run_pipeline prevents that run.
C40_NoRunStartedAfterSignal ==
    [][env.shutdown_requested => ~(pc = "call" /\ pc' = "upsert")]_vars

\* a signal that arrives while the worker sleeps or before the test of line
\* 229 prevents the run: no call of _run_pipeline is reached after it
C40_SignalBeforeCheckPreventsRun ==
    [][env.shutdown_requested /\ pc \in {"idle", "sleep", "check"}
          => pc' \in {"sleep", "check", "stopped"} /\ run'.slept = run.slept]_vars

\* a wait cut short by a signal, after which the worker stopped
C40_Witness ==
    /\ pc = "stopped"
    /\ run.slept < run.wait_seconds

====
